---- MODULE Spec2Model ----
(***************************************************************************)
(* QuizGame: the quiz session engine (assets/js/quiz-engine.js), the       *)
(* question registry and loader (assets/js/questions/index.js), the        *)
(* question pack manager (assets/js/question-packs.js) and the parts of    *)
(* the application root and storage they are driven through.               *)
(*                                                                         *)
(* JavaScript arrays are sequences; a 0-based index i of the source is     *)
(* position i+1 of the sequence.  Objects used as dictionaries are         *)
(* functions whose DOMAIN is the set of keys; where the source iterates    *)
(* over an object or Map in insertion order the model keeps a sequence of  *)
(* entries.  The value `undefined` is the string Undefined, `null` is Null.*)
(***************************************************************************)
EXTENDS Integers, Sequences, FiniteSets, TLC

VARIABLES
  \* QuizEngine fields (quiz-engine.js reset())
  questions, currentQuestionIndex, score, totalPoints, correctCount,
  answers, difficulty, category, hintsUsed,
  \* QuestionPackManager fields (question-packs.js constructor)
  builtInPacks, securePacks, customPacks, packMetadata,
  \* calls of loadFromGitLab that are waiting for a response: for each,
  \* the files still to fetch and the pack ids stored so far
  inFlight,
  \* the question objects that the registry, the pack tables and the session
  \* share by reference, with their option arrays and explanation objects
  \* (SpecAlias; the other specifications hold the records by value)
  heap,
  \* sessionStorage token store read by checkAuthentication, and the clock
  tokenStore, now,
  \* localStorage keys quiz_incomplete, quiz_cached_packs (kept in the
  \* insertion order Object.entries walks) and quiz_pack_preferences
  incompleteQuiz, cachedPacks, packPreferences,
  \* localStorage keys quiz_high_scores and quiz_statistics, and whether
  \* localStorage.setItem currently throws (storage full or disabled)
  highScores, statistics, quotaExceeded,
  \* UIController.currentResults, the results the results screen shows:
  \* <<>> for null, else the one results object held
  currentResults,
  \* what the last call returned or threw
  result,
  \* history: number of getHint calls made since the current position of
  \* the sequence was entered (it stops counting one past the hint list),
  \* and number of submitAnswer calls that recorded an answer since then
  hintCalls, submitCalls

engineVars == <<questions, currentQuestionIndex, score, totalPoints,
                correctCount, answers, difficulty, category, hintsUsed>>
packVars == <<builtInPacks, securePacks, customPacks, packMetadata, inFlight,
              heap>>
authVars == <<tokenStore, now>>
scoreVars == <<highScores, statistics, quotaExceeded, currentResults>>
storageVars == <<incompleteQuiz, cachedPacks, packPreferences, scoreVars>>
history == <<hintCalls, submitCalls>>
vars == <<engineVars, packVars, authVars, storageVars, result, history>>

-----------------------------------------------------------------------------
(* Bounds of the model *)

\* submitAnswer has no guard against resubmission, so answers can grow
\* without limit: the model stops submitting at this length.
MaxAnswers == 2
\* nextQuestion increments without a guard: the model stops advancing this
\* many positions past the end of the sequence.
MaxOverrun == 1

Undefined == "undefined"
Null == "null"

-----------------------------------------------------------------------------
(* Generic helpers for JavaScript array semantics *)

Min(a, b) == IF a < b THEN a ELSE b

\* Array.prototype.indexOf: first 0-based index of x, or -1
IndexOf(s, x) ==
  IF \E i \in 1..Len(s) : s[i] = x
  THEN (CHOOSE i \in 1..Len(s) : s[i] = x /\ \A j \in 1..(i - 1) : s[j] # x) - 1
  ELSE -1

\* Array.prototype.filter
RECURSIVE Filter(_, _)
Filter(s, d) ==
  IF s = <<>> THEN <<>>
  ELSE IF Head(s).difficulty = d THEN <<Head(s)>> \o Filter(Tail(s), d)
       ELSE Filter(Tail(s), d)

\* Array.prototype.flat over a sequence of category entries
RECURSIVE Flat(_)
Flat(entries) ==
  IF entries = <<>> THEN <<>>
  ELSE Head(entries).questions \o Flat(Tail(entries))

Swap(s, i, j) == [s EXCEPT ![i] = s[j], ![j] = s[i]]

\* The loop of shuffleArray from 0-based index i down to 1: every outcome
\* of drawing j = floor(random * (i + 1)) in 0..i and swapping.
RECURSIVE FisherYates(_, _)
FisherYates(s, i) ==
  IF i <= 0 THEN {s}
  ELSE UNION { FisherYates(Swap(s, i + 1, j + 1), i - 1) : j \in 0..i }

\* shuffleArray(array): the set of arrays it can return
shuffleArray(array) == FisherYates(array, Len(array) - 1)

-----------------------------------------------------------------------------
(* Question records *)

Question(id, cat, diff, pts, opts, ci, hasIR, ir, hints) ==
  [id |-> id, category |-> cat, difficulty |-> diff, points |-> pts,
   options |-> opts, correctIndex |-> ci,
   correctResponse |-> "Correct!",
   hasIncorrectResponses |-> hasIR, incorrectResponses |-> ir,
   hints |-> hints, packId |-> Undefined, packSource |-> Undefined,
   absent |-> {}]

\* The same question as it is in a payload that leaves `field` out
Without(q, field) == [q EXCEPT !.absent = @ \cup {field}]

NoResponses == [i \in {} |-> Undefined]

\* question.incorrectResponses[i] on a question whose mapping exists
ResponseAt(q, i) ==
  IF i \in DOMAIN q.incorrectResponses THEN q.incorrectResponses[i]
  ELSE Undefined

Stamp(q, packId, packSource) ==
  [q EXCEPT !.packId = packId, !.packSource = packSource]

StampAll(qs, packId, packSource) ==
  [i \in 1..Len(qs) |-> Stamp(qs[i], packId, packSource)]

\* The bundled test pack, cut down to one question that keeps the shape of
\* the authored ones (every wrong option explained, hints cut to two).
testPackQuestions ==
  << Question("test-easy-001", "test-pack", "easy", 10, <<"London", "Paris">>, 1,
              TRUE, (0 :> "London is the capital of England."),
              <<"hint-1", "hint-2">>) >>

\* questionRegistry with the module-load stamping of index.js lines 39-42
questionRegistry ==
  << [categoryId |-> "test-pack", shape |-> "array",
      questions |-> StampAll(testPackQuestions, "builtin-public", "builtin")] >>

-----------------------------------------------------------------------------
(* The pack payload a user can upload.  It passes validatePackStructure,    *)
(* which requires `points` to be present but not its sign, and does not     *)
(* require incorrectResponses.  Its questions are not in difficulty order.  *)

\* Worth -5 points; its mapping holds no explanation for the wrong option.
customHard ==
  Question("c-hard", "custom", "hard", -5, <<"x", "y">>, 0,
           TRUE, NoResponses, <<>>)
\* Worth 0 points, with no incorrectResponses mapping at all.
customMedium ==
  Question("c-medium", "custom", "medium", 0, <<"x", "y">>, 1,
           FALSE, NoResponses, <<"hint-c">>)

PackA ==
  [packId |-> "pack-a", packName |-> "Pack A", packSource |-> Undefined,
   categories |->
     << [categoryId |-> "custom", shape |-> "object",
         questions |-> <<customHard, customMedium>>],
        [categoryId |-> "empty", shape |-> "object", questions |-> <<>>] >>]

Payloads == {PackA}

\* The category names a caller can ask startQuiz for
CategoryInputs == {"test-pack", "custom", "empty", "random"}

-----------------------------------------------------------------------------
(* QuestionPackManager (question-packs.js) *)

\* Map.prototype.has / get / set on a table kept in insertion order
MapHas(table, packId) == \E i \in 1..Len(table) : table[i].packId = packId
MapGet(table, packId) ==
  table[CHOOSE i \in 1..Len(table) : table[i].packId = packId].categories
MapSet(table, packId, categories) ==
  IF MapHas(table, packId)
  THEN [i \in 1..Len(table) |->
          IF table[i].packId = packId
          THEN [packId |-> packId, categories |-> categories]
          ELSE table[i]]
  ELSE Append(table, [packId |-> packId, categories |-> categories])

\* countQuestions: only a category value with a `questions` property counts
RECURSIVE countQuestions(_)
countQuestions(categories) ==
  IF categories = <<>> THEN 0
  ELSE (IF Head(categories).shape = "object"
        THEN Len(Head(categories).questions) ELSE 0)
       + countQuestions(Tail(categories))

\* The stamping loops of registerBuiltInPack (both category shapes)
StampCategories(categories, packId, packSource) ==
  [i \in 1..Len(categories) |->
     [categories[i] EXCEPT
        !.questions = StampAll(categories[i].questions, packId, packSource)]]

\* A correctIndex that is present in the payload but is not a number (for
\* instance the string "B"): converting it for a comparison gives NaN.
NotANumber == 99
\* The relational operators < and >= of JavaScript: any comparison with
\* NaN is false
JsLess(a, b) == a # NotANumber /\ b # NotANumber /\ a < b
JsGreaterEq(a, b) == a # NotANumber /\ b # NotANumber /\ a >= b

RequiredFields ==
  {"id", "question", "options", "correctIndex", "category", "difficulty",
   "points"}

\* validateQuestion: TRUE when the question passes
validateQuestion(q) ==
  /\ RequiredFields \cap q.absent = {}
  /\ Len(q.options) >= 2
  /\ ~(JsLess(q.correctIndex, 0) \/ JsGreaterEq(q.correctIndex, Len(q.options)))
  /\ q.difficulty \in {"easy", "medium", "hard"}

\* validatePackStructure: TRUE when the payload passes
validatePackStructure(packData) ==
  /\ packData.packId # Undefined /\ packData.packName # Undefined
  /\ \A i \in 1..Len(packData.categories) :
       /\ packData.categories[i].shape = "object"
       /\ \A k \in 1..Len(packData.categories[i].questions) :
            validateQuestion(packData.categories[i].questions[k])

\* The stamping validatePackStructure does on the payload it was given
ValidatedCategories(packData) ==
  StampCategories(packData.categories, packData.packId,
                  IF packData.packSource # Undefined
                  THEN packData.packSource ELSE "upload")

\* checkAuthentication: token and expiry stored, and not within 5 minutes
\* of the expiry.  tokenStore maps the sessionStorage keys that are set;
\* the clock counts minutes.
FiveMinutes == 5
\* Number.prototype.toString for a non-negative integer: its decimal digits
RECURSIVE NumberToString(_)
NumberToString(n) ==
  IF n < 10 THEN <<n>> ELSE Append(NumberToString(n \div 10), n % 10)

\* parseInt of a string of decimal digits; NaN for the empty string
RECURSIVE ParseDigits(_, _)
ParseDigits(digits, value) ==
  IF digits = <<>> THEN value
  ELSE ParseDigits(Tail(digits), 10 * value + Head(digits))
parseInt(digits) == IF digits = <<>> THEN NotANumber ELSE ParseDigits(digits, 0)

\* parseInt(expiry) - 5 * 60 * 1000, NaN when parseInt gives NaN
ExpiryLimit(expiry) ==
  IF parseInt(expiry) = NotANumber THEN NotANumber
  ELSE parseInt(expiry) - FiveMinutes

checkAuthentication ==
  /\ "gitlab_oauth_token" \in DOMAIN tokenStore
  /\ "gitlab_token_expiry" \in DOMAIN tokenStore
  /\ ~JsLess(ExpiryLimit(tokenStore["gitlab_token_expiry"]), now)

\* mergePack assigning a category's list instead of pushing onto it
RECURSIVE mergePackOverwriting(_, _)
mergePackOverwriting(merged, packCategories) ==
  IF packCategories = <<>> THEN merged
  ELSE
    LET c == Head(packCategories)
        withKey ==
          IF \E i \in 1..Len(merged) : merged[i].categoryId = c.categoryId
          THEN merged
          ELSE Append(merged, [categoryId |-> c.categoryId, questions |-> <<>>])
        assigned ==
          [i \in 1..Len(withKey) |->
             IF withKey[i].categoryId = c.categoryId
             THEN [withKey[i] EXCEPT !.questions = c.questions]
             ELSE withKey[i]]
    IN mergePackOverwriting(assigned, Tail(packCategories))

\* mergePack, the helper local to getMergedQuestions
RECURSIVE mergePack(_, _)
mergePack(merged, packCategories) ==
  IF packCategories = <<>> THEN merged
  ELSE
    LET c == Head(packCategories)
        withKey ==
          IF \E i \in 1..Len(merged) : merged[i].categoryId = c.categoryId
          THEN merged
          ELSE Append(merged, [categoryId |-> c.categoryId, questions |-> <<>>])
        pushed ==
          [i \in 1..Len(withKey) |->
             IF withKey[i].categoryId = c.categoryId
             THEN [withKey[i] EXCEPT !.questions = @ \o c.questions]
             ELSE withKey[i]]
    IN mergePack(pushed, Tail(packCategories))

\* A loop of getMergedQuestions that merges a pack whatever its switch
RECURSIVE MergeTableIgnoringSwitch(_, _, _)
MergeTableIgnoringSwitch(merged, table, metadata) ==
  IF table = <<>> THEN merged
  ELSE MergeTableIgnoringSwitch(mergePack(merged, Head(table).categories),
                                Tail(table), metadata)

\* One of the three loops of getMergedQuestions over a pack table
RECURSIVE MergeTable(_, _, _)
MergeTable(merged, table, metadata) ==
  IF table = <<>> THEN merged
  ELSE
    LET p == Head(table)
        next == IF p.packId \in DOMAIN metadata /\ metadata[p.packId].enabled
                THEN mergePack(merged, p.categories) ELSE merged
    IN MergeTable(next, Tail(table), metadata)

\* getMergedQuestions without its third loop
MergedOfWithoutUploads(builtin, secure, custom, metadata, isAuthenticated) ==
  LET m1 == MergeTable(<<>>, builtin, metadata)
  IN IF isAuthenticated THEN MergeTable(m1, secure, metadata) ELSE m1

\* getMergedQuestions merging the api table whatever checkAuthentication says
MergedOfEveryTable(builtin, secure, custom, metadata, isAuthenticated) ==
  LET m1 == MergeTable(<<>>, builtin, metadata)
      m2 == MergeTable(m1, secure, metadata)
  IN MergeTable(m2, custom, metadata)

\* getMergedQuestions over given tables: built-in, then api when
\* authenticated, then upload
MergedOf(builtin, secure, custom, metadata, isAuthenticated) ==
  LET m1 == MergeTable(<<>>, builtin, metadata)
      m2 == IF isAuthenticated THEN MergeTable(m1, secure, metadata) ELSE m1
  IN MergeTable(m2, custom, metadata)

getMergedQuestions ==
  MergedOf(builtInPacks, securePacks, customPacks, packMetadata,
           checkAuthentication)

-----------------------------------------------------------------------------
(* Question registry and loader (questions/index.js) *)

\* `category in obj` and obj[category] on a sequence of category entries
HasKey(entries, cat) == \E i \in 1..Len(entries) : entries[i].categoryId = cat
Lookup(entries, cat) ==
  entries[CHOOSE i \in 1..Len(entries) : entries[i].categoryId = cat].questions

\* getQuestions(category, difficulty) against a given merged view;
\* category Null is the falsy branch (all categories)
QuestionsFrom(merged, cat, diff) ==
  LET own == IF cat # Null
             THEN (IF HasKey(questionRegistry, cat)
                   THEN Lookup(questionRegistry, cat) ELSE <<>>)
             ELSE Flat(questionRegistry)
      all == IF cat # Null
             THEN (IF HasKey(merged, cat)
                   THEN own \o Lookup(merged, cat) ELSE own)
             ELSE own \o Flat(merged)
  IN IF diff # Null THEN Filter(all, diff) ELSE all

getQuestions(cat, diff) == QuestionsFrom(getMergedQuestions, cat, diff)

\* getQuestionById(questionId, category, difficulty): searches the registry
\* only.  The result is <<q>> for the first match and <<>> for null.
getQuestionById(questionId, cat, diff) ==
  LET own == IF cat # Null
             THEN (IF HasKey(questionRegistry, cat)
                   THEN Lookup(questionRegistry, cat) ELSE <<>>)
             ELSE Flat(questionRegistry)
      qs == IF diff # Null THEN Filter(own, diff) ELSE own
  IN IF \E i \in 1..Len(qs) : qs[i].id = questionId
     THEN << qs[CHOOSE i \in 1..Len(qs) :
                  qs[i].id = questionId /\ \A j \in 1..(i - 1) : qs[j].id # questionId] >>
     ELSE <<>>

-----------------------------------------------------------------------------
(* QuizEngine (quiz-engine.js) *)

Result(op, error) ==
  [op |-> op, error |-> error, isCorrect |-> FALSE, feedback |-> Undefined,
   points |-> 0, hint |-> Null, hasMore |-> FALSE, percentage |-> 0,
   loaded |-> <<>>, merged |-> <<>>, requested |-> <<>>]

NoHints == [i \in {} |-> 0]

\* reset(): the values it assigns (startTime and endTime are not modelled)
ResetState ==
  [questions |-> <<>>, currentQuestionIndex |-> 0, score |-> 0,
   totalPoints |-> 0, correctCount |-> 0, answers |-> <<>>,
   difficulty |-> Null, category |-> Null, hintsUsed |-> NoHints]

\* getDefaultPoints(difficulty)
getDefaultPoints(d) ==
  IF d = "easy" THEN 10 ELSE IF d = "medium" THEN 20
  ELSE IF d = "hard" THEN 30 ELSE 10

\* question.points || this.getDefaultPoints(question.difficulty)
PointsOf(q) == IF q.points # 0 THEN q.points ELSE getDefaultPoints(q.difficulty)

\* The forEach of shuffleQuestionOptions from oldIndex on: acc is
\* newIncorrectResponses so far; threw records the TypeError of reading
\* question.incorrectResponses[oldIndex] on a question without the mapping.
RECURSIVE Remap(_, _, _, _, _)
Remap(q, shuffled, newCorrect, oldIndex, acc) ==
  IF oldIndex >= Len(q.options) THEN [threw |-> FALSE, map |-> acc]
  ELSE
    LET newIndex == IndexOf(shuffled, q.options[oldIndex + 1])
    IN IF oldIndex # q.correctIndex /\ newIndex # -1 /\ newIndex # newCorrect
       THEN IF ~q.hasIncorrectResponses
            THEN [threw |-> TRUE, map |-> acc]
            ELSE Remap(q, shuffled, newCorrect, oldIndex + 1,
                       (newIndex :> ResponseAt(q, oldIndex)) @@ acc)
       ELSE Remap(q, shuffled, newCorrect, oldIndex + 1, acc)

\* shuffleQuestionOptions(question) once shuffleArray has returned `shuffled`
ShuffledWith(q, shuffled) ==
  LET correctAnswer == q.options[q.correctIndex + 1]
      newCorrect == IndexOf(shuffled, correctAnswer)
      r == Remap(q, shuffled, newCorrect, 0, NoResponses)
  IN [threw |-> r.threw,
      question |-> [q EXCEPT !.options = shuffled,
                             !.correctIndex = newCorrect,
                             !.hasIncorrectResponses = TRUE,
                             !.incorrectResponses = r.map]]

\* shuffleQuestionOptions(question): every outcome
shuffleQuestionOptions(q) ==
  { ShuffledWith(q, shuffled) : shuffled \in shuffleArray(q.options) }

\* questions.map(q => this.shuffleQuestionOptions(q)): every outcome; the
\* map ends at the first question that throws
RECURSIVE MapShuffle(_)
MapShuffle(qs) ==
  IF qs = <<>> THEN {[threw |-> FALSE, questions |-> <<>>]}
  ELSE UNION {
         IF o.threw THEN {[threw |-> TRUE, questions |-> <<>>]}
         ELSE { [threw |-> r.threw,
                 questions |-> IF r.threw THEN <<>> ELSE <<o.question>> \o r.questions]
                : r \in MapShuffle(Tail(qs)) }
         : o \in shuffleQuestionOptions(Head(qs)) }

\* Progression with the buckets combined hardest first
ProgressionHardFirst(easy, medium, hard) == hard \o medium \o easy

\* The combined sequence of startQuiz: easy, then medium, then hard
Progression(easy, medium, hard) == easy \o medium \o hard

\* The sequences startQuiz can build for a category before option shuffling
StartSequences(cat, shuffleQuestions) ==
  LET easy == getQuestions(cat, "easy")
      medium == getQuestions(cat, "medium")
      hard == getQuestions(cat, "hard")
  IN IF shuffleQuestions
     THEN { Progression(e, m, h) : e \in shuffleArray(easy),
                                   m \in shuffleArray(medium),
                                   h \in shuffleArray(hard) }
     ELSE { Progression(easy, medium, hard) }

\* The engine's fields as one record
EngineState ==
  [questions |-> questions, currentQuestionIndex |-> currentQuestionIndex,
   score |-> score, totalPoints |-> totalPoints, correctCount |-> correctCount,
   answers |-> answers, difficulty |-> difficulty, category |-> category,
   hintsUsed |-> hintsUsed]

SetEngineInit ==
  /\ questions = ResetState.questions
  /\ currentQuestionIndex = ResetState.currentQuestionIndex
  /\ score = ResetState.score
  /\ totalPoints = ResetState.totalPoints
  /\ correctCount = ResetState.correctCount
  /\ answers = ResetState.answers
  /\ difficulty = ResetState.difficulty
  /\ category = ResetState.category
  /\ hintsUsed = ResetState.hintsUsed

SetEngine(st) ==
  /\ questions' = st.questions
  /\ currentQuestionIndex' = st.currentQuestionIndex
  /\ score' = st.score
  /\ totalPoints' = st.totalPoints
  /\ correctCount' = st.correctCount
  /\ answers' = st.answers
  /\ difficulty' = st.difficulty
  /\ category' = st.category
  /\ hintsUsed' = st.hintsUsed

\* startQuiz(category, shuffleQuestions, shuffleOptions): every outcome, as
\* the engine state it leaves and the error it throws.  reset() and the
\* assignment of this.category run before anything can throw.
StartOutcomes(requested, shuffleQuestions, shuffleOptions) ==
  LET cat == IF requested = "random" THEN Null ELSE requested
      fresh == [ResetState EXCEPT !.category = cat]
  IN UNION {
       IF Len(seq) = 0
       THEN {[state |-> fresh, error |-> "NoQuestions"]}
       ELSE IF shuffleOptions
       THEN { [state |-> [fresh EXCEPT !.questions = m.questions],
               error |-> IF m.threw THEN "TypeError" ELSE "none"]
              : m \in MapShuffle(seq) }
       ELSE {[state |-> [fresh EXCEPT !.questions = seq], error |-> "none"]}
       : seq \in StartSequences(cat, shuffleQuestions) }

\* isComplete()
isComplete == currentQuestionIndex >= Len(questions)

\* getCurrentQuestion(), when it does not return null
CurrentQuestion == questions[currentQuestionIndex + 1]

\* The feedback expression of submitAnswer for a wrong answer
IncorrectFeedback(q, selectedIndex) ==
  IF ResponseAt(q, selectedIndex) \in {Undefined, ""}
  THEN "Incorrect answer." ELSE ResponseAt(q, selectedIndex)

\* submitAnswer(selectedIndex)
submitAnswer(selectedIndex) ==
  /\ Len(answers) < MaxAnswers
  /\ IF isComplete
     THEN /\ result' = Result("submitAnswer", "NoCurrentQuestion")
          /\ UNCHANGED <<engineVars, history>>
     ELSE
       LET q == CurrentQuestion
           correct == selectedIndex = q.correctIndex
           points == IF correct THEN PointsOf(q) ELSE 0
       IN /\ difficulty' = q.difficulty
          /\ score' = IF correct THEN score + points ELSE score
          /\ correctCount' = IF correct THEN correctCount + 1 ELSE correctCount
          /\ totalPoints' = totalPoints + PointsOf(q)
          /\ answers' = Append(answers,
               [questionId |-> q.id, selectedIndex |-> selectedIndex,
                correctIndex |-> q.correctIndex, isCorrect |-> correct,
                points |-> points, options |-> q.options])
          /\ result' =
               IF ~correct /\ ~q.hasIncorrectResponses
               THEN Result("submitAnswer", "TypeError")
               ELSE [Result("submitAnswer", "none") EXCEPT
                       !.isCorrect = correct,
                       !.feedback = IF correct THEN q.correctResponse
                                    ELSE IncorrectFeedback(q, selectedIndex),
                       !.points = points]
          /\ submitCalls' = submitCalls + 1
          /\ UNCHANGED <<questions, currentQuestionIndex, category, hintsUsed,
                         hintCalls>>

\* nextQuestion()
nextQuestion ==
  /\ currentQuestionIndex < Len(questions) + MaxOverrun
  /\ currentQuestionIndex' = currentQuestionIndex + 1
  /\ result' = [Result("nextQuestion", "none") EXCEPT
                  !.hasMore = currentQuestionIndex + 1 < Len(questions)]
  /\ hintCalls' = 0 /\ submitCalls' = 0
  /\ UNCHANGED <<questions, score, totalPoints, correctCount, answers,
                 difficulty, category, hintsUsed>>

\* getProgress(): the position and the total it reports (the percentage
\* is not modelled)
ProgressAt(index, qs) == [current |-> index + 1, total |-> Len(qs)]
getProgress == ProgressAt(currentQuestionIndex, questions)

\* this.hintsUsed[questionId] || 0
HintsUsedOf(id) == IF id \in DOMAIN hintsUsed THEN hintsUsed[id] ELSE 0

\* hasMoreHints()
hasMoreHints ==
  /\ ~isComplete
  /\ HintsUsedOf(CurrentQuestion.id) < Len(CurrentQuestion.hints)

\* The count getHint stores for the question
NextHintCount(used) == used + 1

\* getHint()
getHint ==
  IF isComplete
  THEN /\ result' = Result("getHint", "none")
       /\ UNCHANGED <<engineVars, history>>
  ELSE
    LET q == CurrentQuestion
        used == HintsUsedOf(q.id)
    IN /\ difficulty' = q.difficulty
       /\ hintCalls' = Min(hintCalls + 1, Len(q.hints) + 1)
       /\ IF Len(q.hints) = 0 \/ used >= Len(q.hints)
          THEN /\ hintsUsed' = hintsUsed
               /\ result' = Result("getHint", "none")
          ELSE /\ hintsUsed' = (q.id :> NextHintCount(used)) @@ hintsUsed
               /\ result' = [Result("getHint", "none") EXCEPT
                               !.hint = q.hints[used + 1]]
       /\ UNCHANGED <<questions, currentQuestionIndex, score, totalPoints,
                      correctCount, answers, category, submitCalls>>

\* exportState() that leaves the answers out of the snapshot
ExportOfWithoutAnswers(st, calls) ==
  [questions |-> [i \in 1..Len(st.questions) |->
                    [id |-> st.questions[i].id,
                     category |-> st.questions[i].category,
                     difficulty |-> st.questions[i].difficulty]],
   currentQuestionIndex |-> st.currentQuestionIndex, score |-> st.score,
   totalPoints |-> st.totalPoints, correctCount |-> st.correctCount,
   answers |-> <<>>, difficulty |-> st.difficulty,
   category |-> st.category, hintsUsed |-> st.hintsUsed, history |-> calls]

\* exportState() of a given engine state, after the JSON round trip; the
\* history variables ride along
ExportOf(st, calls) ==
  [questions |-> [i \in 1..Len(st.questions) |->
                    [id |-> st.questions[i].id,
                     category |-> st.questions[i].category,
                     difficulty |-> st.questions[i].difficulty]],
   currentQuestionIndex |-> st.currentQuestionIndex, score |-> st.score,
   totalPoints |-> st.totalPoints, correctCount |-> st.correctCount,
   answers |-> st.answers, difficulty |-> st.difficulty,
   category |-> st.category, hintsUsed |-> st.hintsUsed, history |-> calls]

\* The loop of restoreState: the references that resolve, in order
RECURSIVE Rehydrate(_)
Rehydrate(refs) ==
  IF refs = <<>> THEN <<>>
  ELSE getQuestionById(Head(refs).id, Head(refs).category, Head(refs).difficulty)
       \o Rehydrate(Tail(refs))

\* restoreState(savedState, getQuestionById)
restoreState(savedState) ==
  /\ currentQuestionIndex' = savedState.currentQuestionIndex
  /\ score' = savedState.score
  /\ totalPoints' = savedState.totalPoints
  /\ correctCount' = savedState.correctCount
  /\ answers' = savedState.answers
  /\ difficulty' = savedState.difficulty
  /\ category' = savedState.category
  /\ hintsUsed' = savedState.hintsUsed
  /\ questions' = Rehydrate(savedState.questions)
  /\ hintCalls' = savedState.history[1]
  /\ submitCalls' = savedState.history[2]

-----------------------------------------------------------------------------
(* QuizApp (the application root) and StorageManager (storage.js) *)

\* No object is held by reference
NoHeap == [questions |-> <<>>, arrays |-> <<>>, mappings |-> <<>>, session |-> <<>>]

\* getHighScores() and getStatistics() when nothing is stored
NoHighScores == [c \in {} |-> <<>>]
NoStatistics == [totalQuizzes |-> 0, totalQuestions |-> 0, correctAnswers |-> 0,
                 totalPoints |-> 0, categoriesPlayed |-> [c \in {} |-> <<>>]]

\* localStorage.setItem(key, JSON.stringify(value)) inside the try/catch
\* that every writer of storage.js has: what the key holds afterwards.  A
\* setItem that throws leaves the key as it was.
\* setItem that never throws
setItemStoring(stored, value) == value
setItem(stored, value) == IF quotaExceeded THEN stored ELSE value

\* isAvailable(): a test write of a few bytes, which can succeed although
\* the writes of the data throw
IsAvailable == IF quotaExceeded THEN BOOLEAN ELSE {TRUE}

\* saveQuizState(): nothing when storage is not available; a complete quiz
\* is cleared instead of saved
\* saveQuizState storing nothing
SavedAfterNothing(complete, state) == <<>>
SavedAfter(complete, state) == IF complete THEN <<>> ELSE <<state>>

saveQuizState ==
  /\ \E available \in IsAvailable :
       incompleteQuiz' =
         IF ~available THEN incompleteQuiz
         ELSE IF isComplete THEN SavedAfter(TRUE, ExportOf(EngineState, history))
         ELSE setItem(incompleteQuiz,
                      SavedAfter(FALSE, ExportOf(EngineState, history)))
  /\ result' = Result("saveQuizState", "none")
  /\ UNCHANGED <<engineVars, packVars, authVars, cachedPacks, packPreferences,
                 history, scoreVars>>

\* QuizApp.startQuiz(category): clears the saved quiz, starts the engine
\* with both shuffles on, renders the quiz screen (getCurrentQuestion sets
\* this.difficulty) and saves the initial state; an error of the engine is
\* caught and alerted.
QuizApp_startQuiz(requested) ==
  \E o \in StartOutcomes(requested, TRUE, TRUE) :
    LET rendered == IF o.error = "none"
                    THEN [o.state EXCEPT !.difficulty = o.state.questions[1].difficulty]
                    ELSE o.state
    IN /\ SetEngine(rendered)
       /\ hintCalls' = 0 /\ submitCalls' = 0
       /\ \E available \in IsAvailable :
            incompleteQuiz' =
              IF o.error = "none" /\ available
              THEN setItem(<<>>, SavedAfter(FALSE, ExportOf(rendered, <<0, 0>>)))
              ELSE <<>>
       /\ result' = Result("QuizApp.startQuiz", o.error)
       /\ UNCHANGED <<packVars, authVars, cachedPacks, packPreferences, scoreVars>>

\* startQuiz called on the engine directly, with any shuffle flags
startQuiz(requested, shuffleQuestions, shuffleOptions) ==
  \E o \in StartOutcomes(requested, shuffleQuestions, shuffleOptions) :
    /\ SetEngine(o.state)
    /\ hintCalls' = 0 /\ submitCalls' = 0
    /\ result' = Result("startQuiz", o.error)
    /\ UNCHANGED <<packVars, authVars, storageVars>>

\* QuizApp.resumeQuiz(): restores the saved quiz when there is one
resumeQuiz ==
  /\ incompleteQuiz # <<>>
  /\ restoreState(incompleteQuiz[1])
  /\ result' = Result("resumeQuiz", "none")
  /\ UNCHANGED <<packVars, authVars, storageVars>>

\* storageManager.saveCachedPack / removeCachedPack on the cached-pack
\* object: an existing key keeps its place, a new key goes last
CacheHas(cache, packId) == \E i \in 1..Len(cache) : cache[i].packId = packId
CacheGet(cache, packId) ==
  cache[CHOOSE i \in 1..Len(cache) : cache[i].packId = packId]
saveCachedPack(cache, entry) ==
  setItem(cache,
          IF CacheHas(cache, entry.packId)
          THEN [i \in 1..Len(cache) |->
                  IF cache[i].packId = entry.packId THEN entry ELSE cache[i]]
          ELSE Append(cache, entry))
\* removeCachedPack deleting nothing
removeCachedPackKeeping(cache, packId) == cache
removeCachedPack(cache, packId) ==
  setItem(cache, SelectSeq(cache, LAMBDA e : e.packId # packId))

\* storageManager.savePackPreference / removePackPreference on the
\* preference object
savePackPreference(preferences, packId, enabled) ==
  setItem(preferences, (packId :> enabled) @@ preferences)
removePackPreference(preferences, packId) ==
  setItem(preferences, [k \in DOMAIN preferences \ {packId} |-> preferences[k]])

\* cachePack(packId, packData, source): the entry it stores
SevenDays == 10080
\* cachePack giving no entry an expiry
CacheEntryWithoutExpiry(packId, packData, source) ==
  [packId |-> packId, packData |-> packData, source |-> source,
   cachedAt |-> now, expiresAt |-> <<>>]

CacheEntry(packId, packData, source) ==
  [packId |-> packId, packData |-> packData, source |-> source,
   cachedAt |-> now,
   expiresAt |-> IF source = "api" THEN <<now + SevenDays>> ELSE <<>>]

\* packData.packId || `${prefix}-${Date.now()}`
PackIdOr(packData, prefix) ==
  IF packData.packId # Undefined THEN packData.packId
  ELSE prefix \o "-" \o ToString(now)

\* loadCustomPack(file) for a file holding `payload`
loadCustomPack(payload) ==
  /\ IF validatePackStructure(payload)
     THEN LET packData == [payload EXCEPT !.categories = ValidatedCategories(payload)]
              packId == PackIdOr(packData, "custom")
          IN /\ customPacks' = MapSet(customPacks, packId, packData.categories)
             /\ packMetadata' =
                  (packId :> [packId |-> packId, packSource |-> "upload",
                              enabled |-> TRUE, author |-> Null,
                              contactEmail |-> Null]) @@ packMetadata
             /\ cachedPacks' =
                  saveCachedPack(cachedPacks,
                                 CacheEntry(packId, packData, "upload"))
             /\ result' = [Result("loadCustomPack", "none")
                             EXCEPT !.loaded = <<packId>>,
                                    !.requested = <<payload>>]
     ELSE /\ result' = [Result("loadCustomPack", "InvalidPackFile")
                             EXCEPT !.requested = <<payload>>]
          /\ UNCHANGED <<customPacks, packMetadata, cachedPacks>>
  /\ UNCHANGED <<engineVars, builtInPacks, inFlight, heap, securePacks, authVars,
                 incompleteQuiz, packPreferences, history, scoreVars>>

\* The metadata registerBuiltInPack stores
BuiltInMetadata(packId, packName, categories) ==
  [packId |-> packId, packName |-> packName, packSource |-> "builtin",
   packVersion |-> "1.0.0", questionCount |-> countQuestions(categories),
   enabled |-> TRUE, author |-> "Quiz Maintainers", contactEmail |-> Null]

-----------------------------------------------------------------------------
(* The application after QuizApp's constructor: the registry is registered  *)
(* as the built-in pack `builtin-public`, nothing is cached or saved, the   *)
(* user is not logged in and the engine is reset.                           *)

Init ==
  /\ SetEngineInit
  /\ inFlight = <<>>
  /\ heap = NoHeap
  /\ builtInPacks =
       MapSet(<<>>, "builtin-public",
              StampCategories(questionRegistry, "builtin-public", "builtin"))
  /\ securePacks = <<>>
  /\ customPacks = <<>>
  /\ packMetadata =
       ("builtin-public" :>
          BuiltInMetadata("builtin-public", "Public Questions", questionRegistry))
  /\ tokenStore = [k \in {} |-> Null]
  /\ now = 0
  /\ incompleteQuiz = <<>>
  /\ highScores = NoHighScores
  /\ statistics = NoStatistics
  /\ quotaExceeded = FALSE
  /\ currentResults = <<>>
  /\ cachedPacks = <<>>
  /\ packPreferences = [k \in {} |-> Null]
  /\ result = Result("init", "none")
  /\ hintCalls = 0
  /\ submitCalls = 0

\* Calls on the engine and the pack manager, in any order
Next ==
  \/ \E c \in CategoryInputs, sq \in BOOLEAN, so \in BOOLEAN : startQuiz(c, sq, so)
  \/ \E i \in 0..1 :
       submitAnswer(i) /\ UNCHANGED <<packVars, authVars, storageVars>>
  \/ nextQuestion /\ UNCHANGED <<packVars, authVars, storageVars>>
  \/ getHint /\ UNCHANGED <<packVars, authVars, storageVars>>
  \/ \E p \in Payloads : loadCustomPack(p)

Spec == Init /\ [][Next]_vars

\* The same calls with the quiz started and resumed through QuizApp
NextApp ==
  \/ \E c \in CategoryInputs : QuizApp_startQuiz(c)
  \/ resumeQuiz
  \/ \E i \in 0..1 :
       submitAnswer(i) /\ UNCHANGED <<packVars, authVars, storageVars>>
  \/ nextQuestion /\ UNCHANGED <<packVars, authVars, storageVars>>
  \/ getHint /\ UNCHANGED <<packVars, authVars, storageVars>>
  \/ \E p \in Payloads : loadCustomPack(p)

SpecApp == Init /\ [][NextApp]_vars

-----------------------------------------------------------------------------
(* shuffleQuestionOptions on its own: the questions it is applied to have   *)
(* two or three options drawn from two strings, so that option strings can  *)
(* repeat, any correct index, and an explanation authored for any subset of *)
(* the wrong options (the text for 0-based option i is ResponseText[i]).    *)

MaxOptions == 3
OptionStrings == {"a", "b"}
ResponseText == [i \in 0..(MaxOptions - 1) |-> <<"r0", "r1", "r2", "r3">>[i + 1]]

ShuffleInputs ==
  UNION { UNION { UNION {
    { Question("q", "custom", "easy", 10, opts, ci, TRUE,
               [i \in keys |-> ResponseText[i]], <<>>)
      : keys \in SUBSET ((0..(n - 1)) \ {ci}) }
    : ci \in 0..(n - 1) }
    : opts \in [1..n -> OptionStrings] }
    : n \in 2..MaxOptions }

InitShuffle ==
  /\ \E q \in ShuffleInputs : questions = <<q>>
  /\ currentQuestionIndex = 0 /\ score = 0 /\ totalPoints = 0
  /\ correctCount = 0 /\ answers = <<>> /\ difficulty = Null
  /\ category = Null /\ hintsUsed = NoHints
  /\ inFlight = <<>>
  /\ heap = NoHeap
  /\ builtInPacks = <<>> /\ securePacks = <<>> /\ customPacks = <<>>
  /\ packMetadata = [k \in {} |-> Null]
  /\ tokenStore = [k \in {} |-> Null]
  /\ now = 0
  /\ incompleteQuiz = <<>>
  /\ highScores = NoHighScores
  /\ statistics = NoStatistics
  /\ quotaExceeded = FALSE
  /\ currentResults = <<>>
  /\ cachedPacks = <<>>
  /\ packPreferences = [k \in {} |-> Null]
  /\ result = Result("init", "none")
  /\ hintCalls = 0
  /\ submitCalls = 0

\* One call shuffleQuestionOptions(q); questions becomes <<q, the result>>
ShuffleStep ==
  /\ Len(questions) = 1
  /\ \E o \in shuffleQuestionOptions(questions[1]) :
       /\ questions' = <<questions[1], o.question>>
       /\ result' = Result("shuffleQuestionOptions",
                           IF o.threw THEN "TypeError" ELSE "none")
  /\ UNCHANGED <<currentQuestionIndex, score, totalPoints, correctCount,
                 answers, difficulty, category, hintsUsed, packVars, authVars,
                 storageVars, history>>

SpecShuffle == InitShuffle /\ [][ShuffleStep]_vars

-----------------------------------------------------------------------------
(* Properties *)

RECURSIVE SumPoints(_)
SumPoints(as) == IF as = <<>> THEN 0 ELSE Head(as).points + SumPoints(Tail(as))

Last(s) == s[Len(s)]

\* A step that is a call of submitAnswer on a current question
SubmitStep == result'.op = "submitAnswer" /\ ~isComplete /\ answers' # answers

\* C1: the score is the sum of the points of the recorded answers and never
\* exceeds the total of possible points
C1_ScoreWithinTotal ==
  /\ score = SumPoints(answers)
  /\ score <= totalPoints

\* C2: a submitAnswer for a question that already has its answer, before
\* nextQuestion, fails with InvalidStateError and changes nothing
C2_SecondSubmitRejected ==
  [][(result'.op = "submitAnswer" /\ ~isComplete /\ submitCalls >= 1)
       => /\ result'.error = "InvalidStateError"
          /\ UNCHANGED <<score, totalPoints, correctCount, answers,
                         currentQuestionIndex>>]_vars

\* C3: while a session is under way there are as many answers as the
\* current index or one more, and the i-th answer is the answer to the i-th
\* question
C3_AnswersFollowQuestions ==
  (questions # <<>> /\ currentQuestionIndex <= Len(questions))
    => /\ Len(answers) \in {currentQuestionIndex, currentQuestionIndex + 1}
       /\ \A i \in 1..Len(answers) :
            /\ i <= Len(questions)
            /\ answers[i].questionId = questions[i].id

Rank(d) == IF d = "easy" THEN 1 ELSE IF d = "medium" THEN 2 ELSE 3

\* C4: in the session's sequence no question is followed by an easier one,
\* whatever shuffle flags startQuiz was given
C4_DifficultyNonDecreasing ==
  \A i, j \in 1..Len(questions) :
    i < j => Rank(questions[i].difficulty) <= Rank(questions[j].difficulty)

\* A session started over all categories that runs from easy to hard
C4_Witness ==
  /\ result.op = "startQuiz" /\ result.error = "none"
  /\ \E i, j \in 1..Len(questions) :
       questions[i].difficulty = "easy" /\ questions[j].difficulty = "hard"
  /\ \E i \in 1..Len(questions) : questions[i].difficulty = "medium"

CountId(qs, id) == Cardinality({i \in 1..Len(qs) : qs[i].id = id})
IdsOf(qs) == {qs[i].id : i \in 1..Len(qs)}

\* The merged view of the enabled packs, filtered by the session's category
MergedFor(cat) ==
  IF cat = Null THEN Flat(getMergedQuestions)
  ELSE IF HasKey(getMergedQuestions, cat) THEN Lookup(getMergedQuestions, cat)
  ELSE <<>>

\* C5: a started session holds every question of the merged view for its
\* category exactly as often as the merged view does
C5_SessionIsMergedView ==
  (result.op = "startQuiz" /\ result.error = "none")
    => \A id \in IdsOf(questions) \cup IdsOf(MergedFor(category)) :
         CountId(questions, id) = CountId(MergedFor(category), id)

\* C6: a start that fails for want of questions leaves the session that was
\* under way and the saved snapshot as they were
C6_FailedStartChangesNothing ==
  [][(questions # <<>>
        /\ result'.op \in {"startQuiz", "QuizApp.startQuiz"}
        /\ result'.error = "NoQuestions")
       => UNCHANGED <<engineVars, incompleteQuiz>>]_vars

\* C7: an answer is awarded the question's points when correct and 0
\* otherwise, and the total of possible points grows by the question's points
C7_PointsAwarded ==
  [][SubmitStep
       => LET q == CurrentQuestion
              a == Last(answers')
          IN /\ a.points = IF a.isCorrect THEN q.points ELSE 0
             /\ score' = score + a.points
             /\ totalPoints' = totalPoints + q.points]_vars

\* C8: a wrong answer gets the explanation authored for the chosen option,
\* or the generic text when there is none, and the call does not fail
\* having changed the session
C8_WrongAnswerFeedback ==
  [][(SubmitStep /\ ~Last(answers').isCorrect)
       => LET q == CurrentQuestion
              i == Last(answers').selectedIndex
          IN /\ result'.error = "none"
             /\ result'.feedback =
                  IF q.hasIncorrectResponses /\ i \in DOMAIN q.incorrectResponses
                     /\ q.incorrectResponses[i] # Undefined
                  THEN q.incorrectResponses[i] ELSE "Incorrect answer."]_vars

\* C9: the k-th getHint at a position returns the k-th hint of its question
\* and null once they are spent; a question's count of revealed hints never
\* goes down and never passes the number of its hints
C9_HintsInOrder ==
  [][(result'.op = "getHint" /\ ~isComplete)
       => LET q == CurrentQuestion
              k == hintCalls'
          IN /\ IF k <= Len(q.hints)
                THEN /\ result'.hint = q.hints[k]
                     /\ hintsUsed' = (q.id :> k) @@ hintsUsed
                ELSE /\ result'.hint = Null
                     /\ hintsUsed' = hintsUsed
             /\ \A i \in 1..Len(questions) :
                  LET id == questions[i].id
                      after == IF id \in DOMAIN hintsUsed' THEN hintsUsed'[id] ELSE 0
                  IN HintsUsedOf(id) <= after /\ after <= Len(questions[i].hints)]_vars

\* The assignments of old option positions to new ones that keep every
\* option's string and send the correct option to the new correct index
Relabelings(q, r) ==
  { f \in [0..(Len(q.options) - 1) -> 0..(Len(r.options) - 1)] :
      /\ \A i, j \in DOMAIN f : i # j => f[i] # f[j]
      /\ \A i \in DOMAIN f : r.options[f[i] + 1] = q.options[i + 1]
      /\ f[q.correctIndex] = r.correctIndex }

\* The explanation a question carries at an option, <<>> when it has none
Explained(q, i) ==
  IF i \in DOMAIN q.incorrectResponses /\ q.incorrectResponses[i] # Undefined
  THEN <<q.incorrectResponses[i]>> ELSE <<>>

\* C10: the shuffled question has the same options as often, its correct
\* index points at the same string, and every wrong option keeps exactly
\* the explanation it had
C10_ShufflePreserves ==
  (result.op = "shuffleQuestionOptions" /\ result.error = "none")
    => LET q == questions[1]
           r == questions[2]
       IN /\ Len(r.options) = Len(q.options)
          /\ r.options[r.correctIndex + 1] = q.options[q.correctIndex + 1]
          /\ \E f \in Relabelings(q, r) :
               \A i \in DOMAIN f :
                 i # q.correctIndex => Explained(r, f[i]) = Explained(q, i)

-----------------------------------------------------------------------------
(* Save and resume on the engine itself: restoreState applied to what       *)
(* exportState returns, with getQuestionById of questions/index.js as the   *)
(* lookup, at any point of a session.                                       *)

\* restoreState(exportState(), getQuestionById)
restoreExported ==
  /\ restoreState(ExportOf(EngineState, history))
  /\ result' = Result("restoreState", "none")
  /\ UNCHANGED <<packVars, authVars, storageVars>>

NextResume ==
  \/ \E c \in {"test-pack", "custom"}, so \in BOOLEAN : startQuiz(c, FALSE, so)
  \/ \E i \in 0..1 :
       submitAnswer(i) /\ UNCHANGED <<packVars, authVars, storageVars>>
  \/ nextQuestion /\ UNCHANGED <<packVars, authVars, storageVars>>
  \/ \E p \in Payloads : loadCustomPack(p)
  \/ restoreExported

SpecResume == Init /\ [][NextResume]_vars

\* C11: restoring what was exported at a point where questions remain
\* gives the same score, correct count, current index and answers
C11_RoundTripKeepsProgress ==
  [][(result'.op = "restoreState" /\ ~isComplete)
       => /\ score' = score
          /\ correctCount' = correctCount
          /\ currentQuestionIndex' = currentQuestionIndex
          /\ answers' = answers]_vars

\* A session restored in its second question with one correct answer
C11_Witness ==
  /\ result.op = "restoreState"
  /\ Len(questions) = 2 /\ currentQuestionIndex = 1
  /\ score = 10 /\ correctCount = 1 /\ Len(answers) = 1

\* C12: a restore either fails with StaleSessionError or brings back as
\* many questions as the snapshot recorded
C12_RestoreNeverShortens ==
  [][result'.op = "restoreState"
       => \/ result'.error = "StaleSessionError"
          \/ Len(questions') = Len(questions)]_vars

-----------------------------------------------------------------------------
(* Results of a session (getResults), on a category of three questions:    *)
(* the bundled question, which getQuestions delivers twice, and one that a  *)
(* second uploaded pack adds to the same category.                          *)

extraEasy ==
  Question("b-easy", "test-pack", "easy", 10, <<"x", "y">>, 0,
           TRUE, (1 :> "y is wrong."), <<>>)

PackB ==
  [packId |-> "pack-b", packName |-> "Pack B", packSource |-> Undefined,
   categories |->
     << [categoryId |-> "test-pack", shape |-> "object",
         questions |-> <<extraEasy>>] >>]

(* IEEE 754 double arithmetic for (correctCount / questions.length) * 100.  *)
(* A positive double is [m, e]: m its 53 significand bits, most            *)
(* significant first, e the exponent of the first bit; zero has m = <<>>.   *)

SignificandBits == 53
Zero == [m |-> <<>>, e |-> 0]

\* 2^e mod n
RECURSIVE PowMod(_, _)
PowMod(e, n) ==
  IF e = 0 THEN 1 % n
  ELSE LET h == PowMod(e \div 2, n)
       IN (h * h * (IF e % 2 = 1 THEN 2 ELSE 1)) % n

\* The i-th binary digit after the point of c / n (0 < c < n), and what is
\* left of c / n after k digits: 0 when the digits are exact
FractionBit(c, n, i) == (2 * ((c * PowMod(i - 1, n)) % n)) \div n
FractionRest(c, n, k) == (c * PowMod(k, n)) % n

RECURSIVE BitsToInt(_)
BitsToInt(bits) ==
  IF bits = <<>> THEN 0
  ELSE 2 * BitsToInt(SubSeq(bits, 1, Len(bits) - 1)) + bits[Len(bits)]

\* Long multiplication limbs * k + carry, limbs of 13 bits, most
\* significant first; the last carry becomes the first limb of the result
LimbBits == 13
RECURSIVE MulLimbs(_, _, _, _, _)
MulLimbs(limbs, k, i, carry, acc) ==
  IF i = 0 THEN <<carry>> \o acc
  ELSE LET t == limbs[i] * k + carry
       IN MulLimbs(limbs, k, i - 1, t \div (2 ^ LimbBits),
                   <<t % (2 ^ LimbBits)>> \o acc)

\* bits * k + carry on a nonzero bit string, most significant bit first,
\* without leading zeros
TimesSmall(bits, k, carry) ==
  LET pad == (LimbBits - (Len(bits) % LimbBits)) % LimbBits
      padded == [j \in 1..pad |-> 0] \o bits
      limbs == [i \in 1..(Len(padded) \div LimbBits) |->
                  BitsToInt(SubSeq(padded, LimbBits * (i - 1) + 1, LimbBits * i))]
      prod == MulLimbs(limbs, k, Len(limbs), carry, <<>>)
      out == [j \in 1..(LimbBits * Len(prod)) |->
                (prod[(j - 1) \div LimbBits + 1]
                   \div (2 ^ (LimbBits - 1 - ((j - 1) % LimbBits)))) % 2]
      first == CHOOSE i \in 1..Len(out) :
                 out[i] = 1 /\ \A j \in 1..(i - 1) : out[j] = 0
  IN SubSeq(out, first, Len(out))

\* Round to nearest, ties to even: m the first 53 bits, guard the next one,
\* sticky whether anything nonzero follows
RoundToDouble(m, e, guard, sticky) ==
  IF guard = 1 /\ (sticky \/ m[SignificandBits] = 1)
  THEN LET up == TimesSmall(m, 1, 1)
       IN IF Len(up) > SignificandBits
          THEN [m |-> SubSeq(up, 1, SignificandBits), e |-> e + 1]
          ELSE [m |-> up, e |-> e]
  ELSE [m |-> m, e |-> e]

\* The double c / n for integers 0 <= c <= n, n > 0
DoubleDiv(c, n) ==
  IF c = 0 THEN Zero
  ELSE IF c = n
  THEN [m |-> [j \in 1..SignificandBits |-> IF j = 1 THEN 1 ELSE 0], e |-> 0]
  ELSE LET first == CHOOSE i \in 1..n :
                      /\ FractionBit(c, n, i) = 1
                      /\ \A j \in 1..(i - 1) : FractionBit(c, n, j) = 0
       IN RoundToDouble([j \in 1..SignificandBits |->
                           FractionBit(c, n, first + j - 1)],
                        -first,
                        FractionBit(c, n, first + SignificandBits),
                        FractionRest(c, n, first + SignificandBits) # 0)

\* The double x * k for a small positive integer k
DoubleTimes(x, k) ==
  IF x.m = <<>> THEN Zero
  ELSE LET prod == TimesSmall(x.m, k, 0)
           extra == Len(prod) - SignificandBits
           top == x.e - Len(x.m) + Len(prod)
       IN IF extra <= 0 THEN [m |-> prod, e |-> top]
          ELSE RoundToDouble(SubSeq(prod, 1, SignificandBits),
                             top,
                             prod[SignificandBits + 1],
                             \E i \in (SignificandBits + 2)..Len(prod) : prod[i] = 1)

\* The bit of x at exponent j
BitAt(x, j) ==
  IF x.e - j + 1 \in 1..Len(x.m) THEN x.m[x.e - j + 1] ELSE 0

\* Math.round(x) for x >= 0: the integer part, plus one when the fraction
\* is a half or more
MathRound(x) ==
  IF x.m = <<>> THEN 0
  ELSE BitsToInt([j \in 1..(x.e + 1) |-> BitAt(x, x.e + 1 - j)]) + BitAt(x, -1)

\* getResults(): the summary it returns (times are not modelled)
getResults ==
  [score |-> score, totalPoints |-> totalPoints, correctCount |-> correctCount,
   totalQuestions |-> Len(questions),
   percentage |-> IF Len(questions) > 0
                  THEN MathRound(DoubleTimes(DoubleDiv(correctCount, Len(questions)), 100))
                  ELSE 0]

\* A call of getResults()
getResultsCall ==
  /\ result' = [Result("getResults", "none") EXCEPT
                  !.points = getResults.score,
                  !.percentage = getResults.percentage]
  /\ UNCHANGED <<engineVars, packVars, authVars, storageVars, history>>

NextResults ==
  \/ startQuiz("test-pack", FALSE, FALSE)
  \/ \E i \in 0..1 :
       submitAnswer(i) /\ UNCHANGED <<packVars, authVars, storageVars>>
  \/ nextQuestion /\ UNCHANGED <<packVars, authVars, storageVars>>
  \/ loadCustomPack(PackB)
  \/ getResultsCall

SpecResults == Init /\ [][NextResults]_vars

\* C13: at completion the percentage is 100 * correctCount / number of
\* questions rounded to the nearest integer (halves up), whatever was
\* answered; three 10-point questions with one correct answer and two
\* answers recorded give 33, score 10 and 20 possible points
C13_PercentageOverAllQuestions ==
  (result.op = "getResults" /\ isComplete /\ questions # <<>>)
    => LET n == Len(questions)
           p == result.percentage
       IN /\ 2 * n * p - n <= 200 * correctCount
          /\ 200 * correctCount < 2 * n * p + n
          /\ (n = 3 /\ correctCount = 1 /\ Len(answers) = 2
                /\ \A i \in 1..n : questions[i].points = 10)
               => (p = 33 /\ score = 10 /\ totalPoints = 20)

-----------------------------------------------------------------------------
(* getResults at the end of sessions of up to MaxSession questions: the    *)
(* bundled question n times (a pack may hold any number of questions),      *)
(* the first c answered correctly, at most one more answered wrongly and    *)
(* the rest passed over with nextQuestion.                                  *)

MaxSession == 40

AnswerTo(q, selectedIndex) ==
  [questionId |-> q.id, selectedIndex |-> selectedIndex,
   correctIndex |-> q.correctIndex,
   isCorrect |-> selectedIndex = q.correctIndex,
   points |-> IF selectedIndex = q.correctIndex THEN PointsOf(q) ELSE 0,
   options |-> q.options]

InitPercent ==
  /\ \E n \in 1..MaxSession : \E c \in 0..n : \E w \in 0..Min(1, n - c) :
       LET q == questionRegistry[1].questions[1]
       IN /\ questions = [i \in 1..n |-> q]
          /\ currentQuestionIndex = n
          /\ correctCount = c
          /\ score = c * PointsOf(q)
          /\ totalPoints = (c + w) * PointsOf(q)
          /\ answers = [i \in 1..(c + w) |->
                          AnswerTo(q, IF i <= c THEN q.correctIndex ELSE 0)]
          /\ difficulty = q.difficulty
          /\ category = q.category
  /\ hintsUsed = NoHints
  /\ inFlight = <<>>
  /\ heap = NoHeap
  /\ builtInPacks =
       MapSet(<<>>, "builtin-public",
              StampCategories(questionRegistry, "builtin-public", "builtin"))
  /\ securePacks = <<>> /\ customPacks = <<>>
  /\ packMetadata =
       ("builtin-public" :>
          BuiltInMetadata("builtin-public", "Public Questions", questionRegistry))
  /\ tokenStore = [k \in {} |-> Null]
  /\ now = 0
  /\ incompleteQuiz = <<>>
  /\ highScores = NoHighScores
  /\ statistics = NoStatistics
  /\ quotaExceeded = FALSE
  /\ currentResults = <<>>
  /\ cachedPacks = <<>>
  /\ packPreferences = [k \in {} |-> Null]
  /\ result = Result("init", "none")
  /\ hintCalls = 0
  /\ submitCalls = 0

SpecPercent == InitPercent /\ [][getResultsCall]_vars

-----------------------------------------------------------------------------
(* Remote packs, the pack cache and authentication                          *)

\* Packs served by the private repository.  pack-s shares the category
\* test-pack with the bundled pack and with the upload pack-b.
secureEasy ==
  Question("s-easy", "test-pack", "easy", 10, <<"x", "y">>, 1,
           TRUE, (0 :> "x is wrong."), <<>>)
secureHard ==
  Question("s-hard", "secure", "hard", 30, <<"x", "y", "z">>, 2,
           FALSE, NoResponses, <<>>)
secureMedium ==
  Question("t-medium", "secure", "medium", 20, <<"x", "y">>, 0,
           FALSE, NoResponses, <<>>)

PackS ==
  [packId |-> "pack-s", packName |-> "Pack S", packSource |-> Undefined,
   categories |->
     << [categoryId |-> "test-pack", shape |-> "object",
         questions |-> <<secureEasy>>],
        [categoryId |-> "secure", shape |-> "object",
         questions |-> <<secureHard>>] >>]
PackT ==
  [packId |-> "pack-t", packName |-> "Pack T", packSource |-> Undefined,
   categories |->
     << [categoryId |-> "secure", shape |-> "object",
         questions |-> <<secureMedium>>] >>]

\* A pack file with a question that leaves out correctIndex
PackTIncomplete ==
  [PackT EXCEPT !.categories[1].questions =
                  <<secureMedium, Without(secureHard, "correctIndex")>>]

\* What fetch and response.json() give for a file of the repository
Response(file, status, parses, body) ==
  [file |-> file, ok |-> status = 200, status |-> status,
   parses |-> parses, body |-> body]

Responses ==
  { Response("packs/s.json", 200, TRUE, PackS),
    Response("packs/t.json", 200, TRUE, PackT),
    Response("packs/t.json", 200, FALSE, PackT),
    Response("packs/s.json", 404, TRUE, PackS),
    Response("packs/t.json", 401, TRUE, PackT) }

\* What the pack endpoint of loadSecurePack can answer
SecureResponses ==
  Responses \cup {Response("packs/t.json", 200, TRUE, PackTIncomplete)}

\* The error a response makes loadFromGitLab throw, or "none"
ResponseError(r) ==
  IF ~r.ok THEN (IF r.status = 401 THEN "Unauthorized"
                 ELSE IF r.status = 404 THEN "NotFound"
                 ELSE "FailedToLoad")
  ELSE IF ~r.parses THEN "SyntaxError"
  ELSE IF ~validatePackStructure(r.body) THEN "InvalidPack"
  ELSE "none"

\* The metadata loadSecurePack stores for a payload without `metadata`
ApiMetadata(packId) ==
  [packId |-> packId, packSource |-> "api", enabled |-> TRUE,
   author |-> Null, contactEmail |-> Null]

\* loadSecurePack(apiUrl, authToken, packId) when the endpoint answers r
loadSecurePack(packId, r) ==
  LET error == IF ~r.ok THEN "FailedToLoad" ELSE ResponseError(r)
  IN /\ IF error = "none"
        THEN LET packData == [r.body EXCEPT !.categories = ValidatedCategories(r.body)]
             IN /\ securePacks' = MapSet(securePacks, packId, packData.categories)
                /\ packMetadata' = (packId :> ApiMetadata(packId)) @@ packMetadata
                /\ cachedPacks' =
                     saveCachedPack(cachedPacks, CacheEntry(packId, packData, "api"))
                /\ result' = [Result("loadSecurePack", "none")
                                EXCEPT !.loaded = <<packId>>]
        ELSE /\ result' = Result("loadSecurePack", error)
             /\ UNCHANGED <<securePacks, packMetadata, cachedPacks>>
     /\ UNCHANGED <<engineVars, builtInPacks, inFlight, heap, customPacks, authVars,
                    incompleteQuiz, packPreferences, history, scoreVars>>

\* The loop of loadFromGitLab emptying the api table when a file fails
RECURSIVE GitLabLoopClearing(_, _)
GitLabLoopClearing(files, st) ==
  IF files = <<>> THEN st
  ELSE
    LET r == Head(files)
        error == ResponseError(r)
        packData == [r.body EXCEPT !.categories = ValidatedCategories(r.body)]
        packId == PackIdOr(packData, "gitlab")
    IN IF error # "none" THEN [st EXCEPT !.error = error, !.secure = <<>>]
       ELSE GitLabLoopClearing(Tail(files),
              [st EXCEPT
                 !.secure = MapSet(@, packId, packData.categories),
                 !.metadata =
                    (packId :> [packId |-> packId, packSource |-> "api",
                                enabled |-> TRUE, author |-> Null,
                                contactEmail |-> Null,
                                gitlabRepo |-> "group/quiz-packs",
                                gitlabFile |-> r.file]) @@ @,
                 !.cache = saveCachedPack(@, CacheEntry(packId, packData, "api")),
                 !.loaded = Append(@, packId)])

\* The loop of loadFromGitLab over the files still to fetch; st holds the
\* api table, the metadata table, the cache, the ids stored so far and
\* the error that ended the loop
RECURSIVE GitLabLoop(_, _)
GitLabLoop(files, st) ==
  IF files = <<>> THEN st
  ELSE
    LET r == Head(files)
        error == ResponseError(r)
        packData == [r.body EXCEPT !.categories = ValidatedCategories(r.body)]
        packId == PackIdOr(packData, "gitlab")
    IN IF error # "none" THEN [st EXCEPT !.error = error]
       ELSE GitLabLoop(Tail(files),
              [st EXCEPT
                 !.secure = MapSet(@, packId, packData.categories),
                 !.metadata =
                    (packId :> [packId |-> packId, packSource |-> "api",
                                enabled |-> TRUE, author |-> Null,
                                contactEmail |-> Null,
                                gitlabRepo |-> "group/quiz-packs",
                                gitlabFile |-> r.file]) @@ @,
                 !.cache = saveCachedPack(@, CacheEntry(packId, packData, "api")),
                 !.loaded = Append(@, packId)])

\* loadFromGitLab(gitlabUrl, repoPath, token, packFiles) when the files
\* are answered by `files`
loadFromGitLab(files) ==
  \E st \in {GitLabLoop(files, [secure |-> securePacks, metadata |-> packMetadata,
                                cache |-> cachedPacks, loaded |-> <<>>,
                                error |-> "none"])} :
     /\ securePacks' = st.secure
     /\ packMetadata' = st.metadata
     /\ cachedPacks' = st.cache
     /\ result' = [Result("loadFromGitLab", st.error)
                     EXCEPT !.loaded = st.loaded,
                            !.requested = [i \in 1..Len(files) |->
                                             [file |-> files[i].file,
                                              status |-> files[i].status,
                                              error |-> ResponseError(files[i]),
                                              packId |-> files[i].body.packId]]]
     /\ UNCHANGED <<engineVars, builtInPacks, inFlight, heap, customPacks, authVars,
                    incompleteQuiz, packPreferences, history, scoreVars>>

\* storageManager.getPackPreference(packId) !== false
PreferenceNotFalse(preferences, packId) ==
  ~(packId \in DOMAIN preferences /\ preferences[packId] = FALSE)

\* The loop of loadCachedPacks over the snapshot of cache entries read at
\* the start; a throw of validatePackStructure ends the loop
RECURSIVE CachedLoop(_, _, _)
CachedLoop(entries, st, isAuthenticated) ==
  IF entries = <<>> THEN st
  ELSE
    LET cached == Head(entries)
        rest == Tail(entries)
        metadata == [packId |-> cached.packId, packSource |-> cached.source,
                     enabled |-> PreferenceNotFalse(packPreferences, cached.packId)]
        categories == ValidatedCategories(cached.packData)
    IN IF cached.expiresAt # <<>> /\ now > cached.expiresAt[1]
       THEN CachedLoop(rest,
                       [st EXCEPT !.cache = removeCachedPack(@, cached.packId)],
                       isAuthenticated)
       ELSE IF cached.source = "api" /\ ~isAuthenticated
       THEN CachedLoop(rest, st, isAuthenticated)
       ELSE IF ~validatePackStructure(cached.packData) THEN st
       ELSE IF cached.source = "api"
       THEN CachedLoop(rest,
                       [st EXCEPT
                          !.secure = MapSet(@, cached.packId, categories),
                          !.metadata = (cached.packId :> metadata) @@ @],
                       isAuthenticated)
       ELSE IF cached.source = "upload"
       THEN CachedLoop(rest,
                       [st EXCEPT
                          !.custom = MapSet(@, cached.packId, categories),
                          !.metadata = (cached.packId :> metadata) @@ @],
                       isAuthenticated)
       ELSE CachedLoop(rest, st, isAuthenticated)

\* The tables and cache loadCachedPacks leaves, starting from the given
\* ones, for the given answer of checkAuthentication
CachedPacksLoaded(secure, custom, metadata, isAuthenticated) ==
  CachedLoop(cachedPacks,
             [secure |-> secure, custom |-> custom, metadata |-> metadata,
              cache |-> cachedPacks],
             isAuthenticated)

loadCachedPacks ==
  LET st == CachedPacksLoaded(securePacks, customPacks, packMetadata,
                              checkAuthentication)
  IN /\ securePacks' = st.secure
     /\ customPacks' = st.custom
     /\ packMetadata' = st.metadata
     /\ cachedPacks' = st.cache
     /\ result' = Result("loadCachedPacks", "none")
     /\ UNCHANGED <<engineVars, builtInPacks, inFlight, heap, authVars, incompleteQuiz,
                    packPreferences, history, scoreVars>>

\* setPackEnabled(packId, enabled).  The result keeps the arguments, the
\* switch of the pack and the merged view as they were when it was called.
setPackEnabled(packId, enabled) ==
  /\ IF packId \in DOMAIN packMetadata
     THEN /\ packMetadata' = [packMetadata EXCEPT ![packId].enabled = enabled]
          /\ packPreferences' = savePackPreference(packPreferences, packId, enabled)
     ELSE UNCHANGED <<packMetadata, packPreferences>>
  /\ result' = [Result("setPackEnabled", "none")
                  EXCEPT !.requested =
                           <<[packId |-> packId, enabled |-> enabled,
                              wasEnabled |-> packId \in DOMAIN packMetadata
                                               /\ packMetadata[packId].enabled]>>,
                         !.merged = getMergedQuestions]
  /\ UNCHANGED <<engineVars, builtInPacks, inFlight, heap, securePacks, customPacks, authVars,
                 incompleteQuiz, cachedPacks, history, scoreVars>>

\* Map.prototype.delete on a pack table, and `delete` on an object
MapDelete(table, packId) == SelectSeq(table, LAMBDA e : e.packId # packId)
Delete(object, key) == [k \in DOMAIN object \ {key} |-> object[k]]

\* removeCustomPack(packId).  The result keeps the argument and the source
\* the metadata gave for it when it was called.
removeCustomPack(packId) ==
  /\ IF packId \in DOMAIN packMetadata
        /\ packMetadata[packId].packSource = "upload"
     THEN /\ customPacks' = MapDelete(customPacks, packId)
          /\ packMetadata' = Delete(packMetadata, packId)
          /\ cachedPacks' = removeCachedPack(cachedPacks, packId)
          /\ packPreferences' = removePackPreference(packPreferences, packId)
     ELSE UNCHANGED <<customPacks, packMetadata, cachedPacks, packPreferences>>
  /\ result' = [Result("removeCustomPack", "none")
                  EXCEPT !.requested =
                           <<[packId |-> packId,
                              packSource |-> IF packId \in DOMAIN packMetadata
                                             THEN packMetadata[packId].packSource
                                             ELSE Undefined]>>]
  /\ UNCHANGED <<engineVars, builtInPacks, inFlight, heap, securePacks, authVars,
                 incompleteQuiz, history, scoreVars>>

\* GitLabOAuth.storeToken(token) with the default lifetime of 7200 seconds
TokenLifetime == 120
storeToken ==
  /\ tokenStore' = ("gitlab_oauth_token" :> "token")
                     @@ ("gitlab_token_expiry" :>
                           NumberToString(now + TokenLifetime))
  /\ result' = Result("storeToken", "none")
  /\ UNCHANGED <<engineVars, packVars, now, storageVars, history>>

\* The click handler of the logout button: clearToken, securePacks.clear(),
\* the metadata of api packs deleted, then loadCachedPacks
logout ==
  LET apiIds == {id \in DOMAIN packMetadata : packMetadata[id].packSource = "api"}
      kept == [id \in DOMAIN packMetadata \ apiIds |-> packMetadata[id]]
      st == CachedPacksLoaded(<<>>, customPacks, kept, FALSE)
  IN /\ tokenStore' = [k \in {} |-> Null]
     /\ securePacks' = st.secure
     /\ customPacks' = st.custom
     /\ packMetadata' = st.metadata
     /\ cachedPacks' = st.cache
     /\ result' = Result("logout", "none")
     /\ UNCHANGED <<engineVars, builtInPacks, inFlight, heap, now, incompleteQuiz,
                    packPreferences, history, scoreVars>>

-----------------------------------------------------------------------------
(* The pack manager driven by uploads, remote loads, the cache, the pack    *)
(* switches and login/logout, with the clock standing still.                *)

\* Files a user can upload under the id pack-b: the sound one, one whose
\* correctIndex is not a number, and ones validatePackStructure refuses
PackBText ==
  [PackB EXCEPT !.categories[1].questions[1].correctIndex = NotANumber]
PackBIncomplete ==
  [PackB EXCEPT !.categories[1].questions =
                  <<extraEasy, Without(secureMedium, "correctIndex")>>]
PackBOutOfRange ==
  [PackB EXCEPT !.categories[1].questions[1].correctIndex = 2]
PackBNegative ==
  [PackB EXCEPT !.categories[1].questions[1].correctIndex = -1]
PackBOneOption ==
  [PackB EXCEPT !.categories[1].questions[1].options = <<"x">>,
                !.categories[1].questions[1].correctIndex = 0]
PackBExtreme ==
  [PackB EXCEPT !.categories[1].questions[1].difficulty = "extreme"]
PackBUnnamed == [PackB EXCEPT !.packName = Undefined]
\* The sound file without its packId
PackBAnonymous == [PackB EXCEPT !.packId = Undefined]

Uploads ==
  {PackB, PackBText, PackBIncomplete, PackBOutOfRange, PackBNegative,
   PackBOneOption, PackBExtreme, PackBUnnamed, PackBAnonymous}

\* loadFromGitLab is given at most this many files
MaxFiles == 2
FileLists ==
  UNION { [1..n -> Responses] : n \in 1..MaxFiles }

PackIds == {"builtin-public", "pack-b", "pack-s"}
\* The ids removeCustomPack is asked to remove: also one nothing was
\* ever loaded under
RemovableIds == PackIds \cup {"pack-x"}

\* A call of getMergedQuestions, keeping what it returned
getMergedQuestionsCall ==
  /\ result' = [Result("getMergedQuestions", "none")
                  EXCEPT !.merged = getMergedQuestions]
  /\ UNCHANGED <<engineVars, packVars, authVars, storageVars, history>>

NextPacks ==
  \/ \E payload \in Uploads : loadCustomPack(payload)
  \/ loadFromGitLab(<<Response("packs/s.json", 200, TRUE, PackS)>>)
  \/ loadCachedPacks
  \/ \E packId \in PackIds, enabled \in BOOLEAN : setPackEnabled(packId, enabled)
  \/ \E packId \in RemovableIds : removeCustomPack(packId)
  \/ storeToken
  \/ logout
  \/ getMergedQuestionsCall

SpecPacks == Init /\ [][NextPacks]_vars

RemoteIds == {"pack-s", "pack-t"}

\* Remote loads that succeed and fail, and the user switching a remote
\* pack off
NextRemote ==
  \/ \E r \in SecureResponses : loadSecurePack(r.body.packId, r)
  \/ \E files \in FileLists : loadFromGitLab(files)
  \/ \E packId \in RemoteIds : setPackEnabled(packId, FALSE)

SpecRemote == Init /\ [][NextRemote]_vars

-----------------------------------------------------------------------------
(* The cache over time: one remote pack and one upload, login and logout,   *)
(* and the clock read at the instants where a comparison with a token       *)
(* expiry or a cache expiry can change.                                     *)

ClockReadings ==
  {1, TokenLifetime - FiveMinutes, TokenLifetime - FiveMinutes + 1,
   SevenDays, SevenDays + 1}

\* Time passes: Date.now() reads t from now on
Tick(t) ==
  /\ t > now
  /\ now' = t
  /\ result' = Result("tick", "none")
  /\ UNCHANGED <<engineVars, packVars, tokenStore, storageVars, history>>

NextCache ==
  \/ loadFromGitLab(<<Response("packs/s.json", 200, TRUE, PackS)>>)
  \/ loadCustomPack(PackB)
  \/ loadCachedPacks
  \/ setPackEnabled("pack-s", FALSE)
  \/ storeToken
  \/ logout
  \/ \E t \in ClockReadings : Tick(t)

SpecCache == Init /\ [][NextCache]_vars

-----------------------------------------------------------------------------
(* loadFromGitLab as the asynchronous function it is: the call runs up to   *)
(* `await fetch`, other handlers run while the response is awaited, and     *)
(* the function resumes with the response.                                  *)

\* At most this many calls wait for a response at a time
MaxInFlight == 1

FileNames == {"packs/s.json", "packs/t.json"}
FileNameLists == UNION { [1..n -> FileNames] : n \in 1..MaxFiles }

\* loadFromGitLab(gitlabUrl, repoPath, token, packFiles) up to the first
\* `await fetch(fileUrl, ...)`
loadFromGitLab_call(packFiles) ==
  /\ Len(inFlight) < MaxInFlight
  /\ inFlight' = Append(inFlight, [files |-> packFiles, loaded |-> <<>>])
  /\ result' = Result("loadFromGitLab.call", "none")
  /\ UNCHANGED <<engineVars, builtInPacks, securePacks, customPacks,
                 packMetadata, heap, authVars, storageVars, history>>

\* The oldest waiting call resumes with the response r to the file it
\* asked for: the rest of the loop body for that file, then either the
\* fetch of the next file or the end of the call
loadFromGitLab_resume(r) ==
  /\ inFlight # <<>>
  /\ r.file = Head(Head(inFlight).files)
  /\ LET call == Head(inFlight)
         st == GitLabLoop(<<r>>, [secure |-> securePacks, metadata |-> packMetadata,
                                  cache |-> cachedPacks, loaded |-> call.loaded,
                                  error |-> "none"])
         more == st.error = "none" /\ Len(call.files) > 1
     IN /\ securePacks' = st.secure
        /\ packMetadata' = st.metadata
        /\ cachedPacks' = st.cache
        /\ inFlight' = IF more
                       THEN <<[files |-> Tail(call.files), loaded |-> st.loaded]>>
                              \o Tail(inFlight)
                       ELSE Tail(inFlight)
        /\ result' = [Result("loadFromGitLab.resume", st.error)
                        EXCEPT !.loaded = st.loaded]
  /\ UNCHANGED <<engineVars, builtInPacks, customPacks, heap, authVars,
                 incompleteQuiz, packPreferences, history, scoreVars>>

NextFetch ==
  \/ \E packFiles \in FileNameLists : loadFromGitLab_call(packFiles)
  \/ \E r \in Responses : loadFromGitLab_resume(r)
  \/ \E packId \in RemoteIds : setPackEnabled(packId, FALSE)
  \/ storeToken
  \/ logout

SpecFetch == Init /\ [][NextFetch]_vars

-----------------------------------------------------------------------------
(* QuizApp.nextQuestion with the results it saves, and localStorage writes  *)
(* that throw                                                               *)

\* saveHighScore keeps the ten best scores of a category
TopScores == 10

\* saveHighScore(category, scoreData) on the stored scores: the new score is
\* pushed, the list is sorted by score, highest first (the sort is stable,
\* so the new score goes behind the scores equal to it), and cut to ten
saveHighScore(scores, cat, scoreData) ==
  LET old == IF cat \in DOMAIN scores THEN scores[cat] ELSE <<>>
      ahead == Cardinality({i \in 1..Len(old) : old[i].score >= scoreData.score})
      sorted == SubSeq(old, 1, ahead) \o <<scoreData>> \o SubSeq(old, ahead + 1, Len(old))
  IN setItem(scores, (cat :> SubSeq(sorted, 1, Min(TopScores, Len(sorted)))) @@ scores)

\* updateStatistics(statsUpdate) on the stored statistics
NoCategoryStats == [quizzes |-> 0, questions |-> 0, correct |-> 0, points |-> 0]
updateStatistics(stats, update) ==
  LET played == stats.categoriesPlayed
      before == IF update.category \in DOMAIN played
                THEN played[update.category] ELSE NoCategoryStats
      after == [quizzes |-> before.quizzes + 1,
                questions |-> before.questions + update.totalQuestions,
                correct |-> before.correct + update.correctCount,
                points |-> before.points + update.score]
  IN setItem(stats,
             [totalQuizzes |-> stats.totalQuizzes + 1,
              totalQuestions |-> stats.totalQuestions + update.totalQuestions,
              correctAnswers |-> stats.correctAnswers + update.correctCount,
              totalPoints |-> stats.totalPoints + update.score,
              categoriesPlayed |-> (update.category :> after) @@ played])

\* What saveQuizResults() hands to saveHighScore for the session st:
\* getResults() with the timestamp saveHighScore adds
ScoreData(st) ==
  [score |-> st.score, totalPoints |-> st.totalPoints,
   correctCount |-> st.correctCount, totalQuestions |-> Len(st.questions),
   difficulty |-> st.difficulty, timestamp |-> now]

\* results.category || 'random'
ResultsCategory(st) == IF st.category = Null THEN "random" ELSE st.category

\* UIController.setQuizResults(results, isNewHighScore): what currentResults
\* holds afterwards
setQuizResults(results) == <<results>>

\* UIController.showResults(): currentResults is filled from the engine's
\* getResults() only when it is null; what it holds afterwards is what the
\* screen displays
showResults(held) == IF held = <<>> THEN <<getResults>> ELSE held

\* QuizApp.nextQuestion(), the handler of the next button of a quiz that
\* was started; like the engine's nextQuestion it does not look at the
\* position it moves from.  With a further question: the screen is rendered
\* (getCurrentQuestion sets this.difficulty) and the state saved.  Without:
\* the saved quiz is cleared, saveQuizResults() stores the high score and
\* the statistics and hands the results to the view, unless storage is not
\* available, and the results screen is shown.
QuizApp_nextQuestion ==
  /\ questions # <<>>
  /\ currentQuestionIndex < Len(questions) + MaxOverrun
  /\ currentQuestionIndex' = currentQuestionIndex + 1
  /\ hintCalls' = 0 /\ submitCalls' = 0
  /\ LET hasMore == currentQuestionIndex + 1 < Len(questions)
         moved == [EngineState EXCEPT !.currentQuestionIndex = currentQuestionIndex + 1]
         rendered == IF hasMore
                     THEN [moved EXCEPT !.difficulty =
                                          questions[currentQuestionIndex + 2].difficulty]
                     ELSE moved
     IN /\ difficulty' = rendered.difficulty
        /\ \E available \in IsAvailable :
             IF hasMore
             THEN /\ incompleteQuiz' =
                       IF available
                       THEN setItem(incompleteQuiz,
                                    SavedAfter(FALSE, ExportOf(rendered, <<0, 0>>)))
                       ELSE incompleteQuiz
                  /\ UNCHANGED <<highScores, statistics, currentResults>>
             ELSE /\ incompleteQuiz' = <<>>
                  /\ highScores' =
                       IF available
                       THEN saveHighScore(highScores, ResultsCategory(rendered),
                                          ScoreData(rendered))
                       ELSE highScores
                  /\ statistics' =
                       IF available
                       THEN updateStatistics(statistics,
                              [category |-> ResultsCategory(rendered),
                               score |-> score, totalQuestions |-> Len(questions),
                               correctCount |-> correctCount])
                       ELSE statistics
                  /\ currentResults' =
                       showResults(IF available THEN setQuizResults(getResults)
                                   ELSE currentResults)
        /\ result' = [Result("QuizApp.nextQuestion", "none") EXCEPT !.hasMore = hasMore]
  /\ UNCHANGED <<questions, score, totalPoints, correctCount, answers, category,
                 hintsUsed, packVars, authVars, cachedPacks, packPreferences,
                 quotaExceeded>>

\* localStorage fills up or is freed outside the program
QuotaChange(exceeded) ==
  /\ quotaExceeded # exceeded
  /\ quotaExceeded' = exceeded
  /\ result' = Result("QuotaChange", "none")
  /\ UNCHANGED <<engineVars, packVars, authVars, incompleteQuiz, cachedPacks,
                 packPreferences, highScores, statistics, currentResults,
                 history>>

\* Quizzes finished in a run of SpecStorage
MaxQuizzes == 1

NextStorage ==
  \/ /\ statistics.totalQuizzes < MaxQuizzes
     /\ QuizApp_startQuiz("test-pack")
  \/ submitAnswer(0) /\ UNCHANGED <<packVars, authVars, storageVars>>
  \/ QuizApp_nextQuestion
  \/ loadFromGitLab(<<Response("packs/s.json", 200, TRUE, PackS)>>)
  \/ QuotaChange(TRUE)

SpecStorage == Init /\ [][NextStorage]_vars

\* Quizzes over the two questions that the built-in pack and an uploaded
\* pack give the category test-pack, started, advanced and resumed through
\* QuizApp with a storage that takes every write.  The answer given is the
\* first option, which the shuffle of the options makes right or wrong.
NextSnapshot ==
  \/ loadCustomPack(PackB)
  \/ /\ statistics.totalQuizzes < MaxQuizzes
     /\ QuizApp_startQuiz("test-pack")
  \/ submitAnswer(0) /\ UNCHANGED <<packVars, authVars, storageVars>>
  \/ QuizApp_nextQuestion
  \/ resumeQuiz

SpecSnapshot == Init /\ [][NextSnapshot]_vars

-----------------------------------------------------------------------------
(* Question records as the objects they are.  getQuestions returns the      *)
(* objects of the registry and of the pack tables themselves, so a session  *)
(* built without the option shuffle holds the very objects the tables hold, *)
(* and a write through the session would be a write to the tables.  The     *)
(* heap gives every question object an address (its id for an object of the *)
(* registry), and its option array and its incorrectResponses object        *)
(* addresses of their own.                                                  *)

OptionsOf(a) == a \o ".options"
ResponsesOf(a) == a \o ".incorrectResponses"
\* The object that shuffleQuestionOptions creates for position i
CopyOf(a, i) == "shuffled[" \o ToString(i) \o "]:" \o a

\* The objects of the questions qs, each with its own array and mapping
HeapOf(qs) ==
  LET At(a) == qs[CHOOSE i \in 1..Len(qs) : qs[i].id = a]
      ids == {qs[i].id : i \in 1..Len(qs)}
      mapped == {a \in ids : At(a).hasIncorrectResponses}
  IN [questions |->
        [a \in ids |->
           [fields |-> [At(a) EXCEPT !.options = <<>>,
                                     !.incorrectResponses = NoResponses],
            options |-> OptionsOf(a),
            incorrectResponses |->
              IF a \in mapped THEN ResponsesOf(a) ELSE Undefined]],
      arrays |-> [r \in {OptionsOf(a) : a \in ids} |->
                    At(CHOOSE a \in ids : OptionsOf(a) = r).options],
      mappings |-> [r \in {ResponsesOf(a) : a \in mapped} |->
                      At(CHOOSE a \in mapped : ResponsesOf(a) = r).incorrectResponses],
      session |-> <<>>]

\* The objects of the registry, which registerBuiltInPack stamps in place
\* and puts into the built-in table
RegistryHeap ==
  HeapOf(Flat(StampCategories(questionRegistry, "builtin-public", "builtin")))
TableAddresses == DOMAIN RegistryHeap.questions

\* The record that reading the fields of the object at address a gives
Deref(h, a) ==
  LET o == h.questions[a]
  IN [o.fields EXCEPT
        !.options = h.arrays[o.options],
        !.incorrectResponses =
          IF o.incorrectResponses = Undefined THEN NoResponses
          ELSE h.mappings[o.incorrectResponses]]

\* What the garbage collector leaves once the session is dropped
Restrict(f, keys) == [k \in DOMAIN f \cap keys |-> f[k]]
Collect(h) ==
  [questions |-> Restrict(h.questions, TableAddresses),
   arrays |-> Restrict(h.arrays, {OptionsOf(a) : a \in TableAddresses}),
   mappings |-> Restrict(h.mappings, {ResponsesOf(a) : a \in TableAddresses}),
   session |-> <<>>]

\* { ...question, options: ... } that creates no object: `shuffled` is the
\* question itself
SpreadQuestionAliasing(h, a, copy, optionsAddress) ==
  [heap |-> [h EXCEPT !.questions =
                        (a :> [h.questions[a] EXCEPT !.options = optionsAddress])
                          @@ @],
   address |-> a]
\* { ...question, options: ... }: a new object with the fields of the
\* object at a (the incorrectResponses object is shared) and its own options
SpreadQuestion(h, a, copy, optionsAddress) ==
  [heap |-> [h EXCEPT !.questions =
                        (copy :> [h.questions[a] EXCEPT !.options = optionsAddress])
                          @@ @],
   address |-> copy]

\* shuffleQuestionOptions(question) on the object at a, once shuffleArray
\* has returned its new array `shuffled`: the new array, the spread, the
\* assignment of shuffled.correctIndex, the loop that fills a new mapping
\* (it throws when the question has no mapping to read) and the assignment
\* of shuffled.incorrectResponses
HeapShuffledWith(h, a, copy, shuffled) ==
  LET o == ShuffledWith(Deref(h, a), shuffled)
      h1 == [h EXCEPT !.arrays = (OptionsOf(copy) :> shuffled) @@ @]
      s == SpreadQuestion(h1, a, copy, OptionsOf(copy))
      target == s.heap.questions[s.address]
      assigned == [target EXCEPT !.fields.correctIndex = o.question.correctIndex]
      remapped == [assigned EXCEPT !.incorrectResponses = ResponsesOf(copy),
                                   !.fields.hasIncorrectResponses = TRUE]
      h2 == [s.heap EXCEPT !.questions = (s.address :> assigned) @@ @]
      h3 == [h2 EXCEPT
               !.mappings = (ResponsesOf(copy) :> o.question.incorrectResponses) @@ @,
               !.questions = (s.address :> remapped) @@ @]
  IN [heap |-> IF o.threw THEN h2 ELSE h3, address |-> s.address, threw |-> o.threw]

\* questions.map(q => this.shuffleQuestionOptions(q)) from position i on
RECURSIVE HeapMapShuffle(_, _, _)
HeapMapShuffle(h, refs, i) ==
  IF refs = <<>> THEN {[heap |-> h, session |-> <<>>, threw |-> FALSE]}
  ELSE UNION {
         LET o == HeapShuffledWith(h, Head(refs), CopyOf(Head(refs), i), shuffled)
         IN IF o.threw THEN {[heap |-> o.heap, session |-> <<>>, threw |-> TRUE]}
            ELSE { [heap |-> r.heap, session |-> <<o.address>> \o r.session,
                    threw |-> r.threw]
                   : r \in HeapMapShuffle(o.heap, Tail(refs), i + 1) }
         : shuffled \in shuffleArray(Deref(h, Head(refs)).options) }

\* startQuiz(category, true, shuffleOptions) on the heap: the session holds
\* the objects getQuestions returned, or the objects shuffleQuestionOptions
\* made of them; the engine's questions are what reading them gives
Alias_startQuiz(requested, shuffleOptions) ==
  LET cat == IF requested = "random" THEN Null ELSE requested
      fresh == [ResetState EXCEPT !.category = cat]
      h0 == Collect(heap)
  IN /\ \E seq \in StartSequences(cat, TRUE) :
          LET refs == [i \in 1..Len(seq) |-> seq[i].id]
          IN IF Len(seq) = 0
             THEN /\ SetEngine(fresh)
                  /\ heap' = h0
                  /\ result' = Result("startQuiz", "NoQuestions")
             ELSE \E m \in IF shuffleOptions THEN HeapMapShuffle(h0, refs, 1)
                           ELSE {[heap |-> h0, session |-> refs, threw |-> FALSE]} :
                    /\ heap' = [m.heap EXCEPT !.session = m.session]
                    /\ SetEngine([fresh EXCEPT !.questions =
                                    [i \in 1..Len(m.session) |->
                                       Deref(m.heap, m.session[i])]])
                    /\ result' = Result("startQuiz",
                                        IF m.threw THEN "TypeError" ELSE "none")
     /\ hintCalls' = 0 /\ submitCalls' = 0
     /\ UNCHANGED <<builtInPacks, securePacks, customPacks, packMetadata,
                    inFlight, authVars, storageVars>>

InitAlias ==
  /\ SetEngineInit
  /\ inFlight = <<>>
  /\ heap = RegistryHeap
  /\ builtInPacks =
       MapSet(<<>>, "builtin-public",
              StampCategories(questionRegistry, "builtin-public", "builtin"))
  /\ securePacks = <<>>
  /\ customPacks = <<>>
  /\ packMetadata =
       ("builtin-public" :>
          BuiltInMetadata("builtin-public", "Public Questions", questionRegistry))
  /\ tokenStore = [k \in {} |-> Null]
  /\ now = 0
  /\ incompleteQuiz = <<>>
  /\ highScores = NoHighScores
  /\ statistics = NoStatistics
  /\ quotaExceeded = FALSE
  /\ currentResults = <<>>
  /\ cachedPacks = <<>>
  /\ packPreferences = [k \in {} |-> Null]
  /\ result = Result("init", "none")
  /\ hintCalls = 0
  /\ submitCalls = 0

\* Sessions built with and without the option shuffle and played; none of
\* submitAnswer, nextQuestion and getHint assigns to a question object
NextAlias ==
  \/ \E c \in {"test-pack", "random"}, so \in BOOLEAN : Alias_startQuiz(c, so)
  \/ \E i \in 0..1 :
       submitAnswer(i) /\ UNCHANGED <<packVars, authVars, storageVars>>
  \/ nextQuestion /\ UNCHANGED <<packVars, authVars, storageVars>>
  \/ getHint /\ UNCHANGED <<packVars, authVars, storageVars>>

SpecAlias == InitAlias /\ [][NextAlias]_vars

-----------------------------------------------------------------------------
(* The OAuth manager (gitlab-oauth.js) reading the token store that the    *)
(* pack manager's checkAuthentication reads.                               *)

\* GitLabOAuth.clearToken() on the token store
clearToken(store) ==
  [k \in DOMAIN store \ {"gitlab_oauth_token", "gitlab_token_expiry",
                         "gitlab_code_verifier"} |-> store[k]]

\* getStoredToken() without the five minutes it takes off the expiry
getStoredTokenWithoutBuffer(store, t) ==
  IF ~("gitlab_oauth_token" \in DOMAIN store
         /\ "gitlab_token_expiry" \in DOMAIN store)
  THEN [token |-> Null, store |-> store]
  ELSE IF JsLess(parseInt(store["gitlab_token_expiry"]), t)
       THEN [token |-> Null, store |-> clearToken(store)]
       ELSE [token |-> store["gitlab_oauth_token"], store |-> store]

\* GitLabOAuth.getStoredToken() at time t: the token it returns and the
\* token store it leaves (an expired token is cleared)
getStoredToken(store, t) ==
  IF ~("gitlab_oauth_token" \in DOMAIN store
         /\ "gitlab_token_expiry" \in DOMAIN store)
  THEN [token |-> Null, store |-> store]
  ELSE IF JsLess(ExpiryLimit(store["gitlab_token_expiry"]), t)
       THEN [token |-> Null, store |-> clearToken(store)]
       ELSE [token |-> store["gitlab_oauth_token"], store |-> store]

\* GitLabOAuth.isAuthenticated(): the value it returns
isAuthenticated == getStoredToken(tokenStore, now).token # Null

\* A call of GitLabOAuth.isAuthenticated()
isAuthenticatedCall ==
  /\ tokenStore' = getStoredToken(tokenStore, now).store
  /\ result' = [Result("isAuthenticated", "none")
                  EXCEPT !.requested = <<[authenticated |-> isAuthenticated]>>]
  /\ UNCHANGED <<engineVars, packVars, now, storageVars, history>>

NextAuth ==
  \/ storeToken
  \/ logout
  \/ \E t \in ClockReadings : Tick(t)
  \/ isAuthenticatedCall
  \/ loadFromGitLab(<<Response("packs/s.json", 200, TRUE, PackS)>>)
  \/ loadCustomPack(PackB)
  \/ getMergedQuestionsCall

SpecAuth == Init /\ [][NextAuth]_vars

(* Start-up over a pack cache that earlier visits left in localStorage.    *)

\* A cache entry that does not pass validatePackStructure: one question of
\* its pack has no correctIndex
PackOutdated == [PackBIncomplete EXCEPT !.packId = "pack-x"]

\* The key quiz_cached_packs is written outside this program (by another
\* version of the page, or by hand), getting an entry under entry.packId
StoredOutside(entry) ==
  /\ cachedPacks' =
       IF CacheHas(cachedPacks, entry.packId)
       THEN [i \in 1..Len(cachedPacks) |->
               IF cachedPacks[i].packId = entry.packId THEN entry
               ELSE cachedPacks[i]]
       ELSE Append(cachedPacks, entry)
  /\ result' = Result("storedOutside", "none")
  /\ UNCHANGED <<engineVars, packVars, authVars, incompleteQuiz, packPreferences,
                 scoreVars, history>>

\* The page is loaded again in the same tab: new engine, view and pack
\* manager, then QuizApp.init() registers the built-in pack and calls
\* loadCachedPacks(); sessionStorage and localStorage are what they were
PageLoad ==
  LET st == CachedPacksLoaded(<<>>, <<>>,
              ("builtin-public" :>
                 BuiltInMetadata("builtin-public", "Public Questions",
                                 questionRegistry)),
              checkAuthentication)
  IN /\ SetEngine(ResetState)
     /\ hintCalls' = 0 /\ submitCalls' = 0
     /\ securePacks' = st.secure
     /\ customPacks' = st.custom
     /\ packMetadata' = st.metadata
     /\ cachedPacks' = st.cache
     /\ inFlight' = <<>>
     /\ currentResults' = <<>>
     /\ result' = Result("QuizApp.init", "none")
     /\ UNCHANGED <<builtInPacks, heap, authVars, incompleteQuiz,
                    packPreferences, highScores, statistics, quotaExceeded>>

NextStartup ==
  \/ loadCustomPack(PackB)
  \/ loadFromGitLab(<<Response("packs/s.json", 200, TRUE, PackS)>>)
  \/ StoredOutside(CacheEntry("pack-x", PackOutdated, "upload"))
  \/ removeCustomPack("pack-b")
  \/ storeToken
  \/ PageLoad

SpecStartup == Init /\ [][NextStartup]_vars

(* The application of main.js: quizzes played one after the other in one   *)
(* page, with the results screen at the end of each.                       *)

\* QuizApp.startQuiz(category) of main.js: the engine is started with both
\* shuffles on and the quiz screen rendered (getCurrentQuestion sets
\* this.difficulty); an error of the engine is caught and alerted.  The
\* category buttons are on the start screen, which is shown after init()
\* and after restart(), when the engine is reset.
Main_startQuiz(requested) ==
  /\ EngineState = ResetState
  /\ \E o \in StartOutcomes(requested, TRUE, TRUE) :
    LET rendered == IF o.error = "none"
                    THEN [o.state EXCEPT !.difficulty = o.state.questions[1].difficulty]
                    ELSE o.state
    IN /\ SetEngine(rendered)
       /\ hintCalls' = 0 /\ submitCalls' = 0
       /\ result' = Result("Main.startQuiz", o.error)
       /\ UNCHANGED <<packVars, authVars, storageVars>>

\* QuizApp.nextQuestion() of main.js: with a further question the quiz
\* screen is rendered, without one the results screen is shown
Main_nextQuestion ==
  /\ questions # <<>>
  /\ currentQuestionIndex < Len(questions) + MaxOverrun
  /\ currentQuestionIndex' = currentQuestionIndex + 1
  /\ hintCalls' = 0 /\ submitCalls' = 0
  /\ LET hasMore == currentQuestionIndex + 1 < Len(questions)
     IN /\ difficulty' = IF hasMore
                         THEN questions[currentQuestionIndex + 2].difficulty
                         ELSE difficulty
        /\ currentResults' = IF hasMore THEN currentResults
                             ELSE showResults(currentResults)
        /\ result' = [Result("Main.nextQuestion", "none") EXCEPT !.hasMore = hasMore]
  /\ UNCHANGED <<questions, score, totalPoints, correctCount, answers, category,
                 hintsUsed, packVars, authVars, incompleteQuiz, cachedPacks,
                 packPreferences, highScores, statistics, quotaExceeded>>

\* QuizApp.restart(): the engine is reset and the start screen rendered
QuizApp_restart ==
  /\ SetEngine(ResetState)
  /\ hintCalls' = 0 /\ submitCalls' = 0
  /\ result' = Result("QuizApp.restart", "none")
  /\ UNCHANGED <<packVars, authVars, storageVars>>

NextView ==
  \/ Main_startQuiz("test-pack")
  \/ \E i \in 0..1 :
       submitAnswer(i) /\ UNCHANGED <<packVars, authVars, storageVars>>
  \/ Main_nextQuestion
  \/ QuizApp_restart

SpecView == Init /\ [][NextView]_vars

(* The built-in pack among uploads, remote loads, removals and logouts,    *)
(* also ones made under the built-in pack's own id.                        *)

\* An upload file and a repository file that give `builtin-public` as
\* their packId
PackShadow == [PackB EXCEPT !.packId = "builtin-public"]
PackRemoteShadow == [PackT EXCEPT !.packId = "builtin-public"]

NextBuiltIn ==
  \/ \E payload \in {PackB, PackShadow} : loadCustomPack(payload)
  \/ \E body \in {PackS, PackRemoteShadow} :
       loadFromGitLab(<<Response("packs/s.json", 200, TRUE, body)>>)
  \/ \E packId \in {"builtin-public", "pack-b"} : removeCustomPack(packId)
  \/ storeToken
  \/ logout

SpecBuiltIn == Init /\ [][NextBuiltIn]_vars

(* Properties of the pack manager *)

Occurrences(qs, q) == Cardinality({i \in 1..Len(qs) : qs[i] = q})

PackEnabled(packId) ==
  packId \in DOMAIN packMetadata /\ packMetadata[packId].enabled

\* Every question of every enabled pack of the table is in the merged
\* list of its category exactly once
HeldOnce(table) ==
  \A i \in 1..Len(table) :
    PackEnabled(table[i].packId) =>
      \A k \in 1..Len(table[i].categories) :
        LET c == table[i].categories[k]
        IN \A j \in 1..Len(c.questions) :
             Occurrences(MergedFor(c.categoryId), c.questions[j]) = 1

\* C14: while a registered built-in pack or a loaded upload pack is
\* enabled, getMergedQuestions contains every question of the pack exactly
\* once, under the category the pack files it in.
C14_EnabledPackIsMerged == HeldOnce(builtInPacks) /\ HeldOnce(customPacks)

\* The upload pack-b has just been loaded beside the built-in pack and
\* both are enabled: their shared category lists both questions.
C14_Witness ==
  /\ result.op = "loadCustomPack" /\ result.error = "none"
  /\ MapHas(customPacks, "pack-b") /\ PackEnabled("pack-b")
  /\ MapGet(customPacks, "pack-b") = ValidatedCategories(PackB)
  /\ PackEnabled("builtin-public")
  /\ Len(MergedFor("test-pack")) >= 2

\* The questions a pack files under category cat
RECURSIVE CategoryQuestions(_, _)
CategoryQuestions(categories, cat) ==
  IF categories = <<>> THEN <<>>
  ELSE (IF Head(categories).categoryId = cat
        THEN Head(categories).questions ELSE <<>>)
       \o CategoryQuestions(Tail(categories), cat)

\* The questions the enabled packs of a table file under cat, in table order
RECURSIVE TableQuestions(_, _)
TableQuestions(table, cat) ==
  IF table = <<>> THEN <<>>
  ELSE (IF PackEnabled(Head(table).packId)
        THEN CategoryQuestions(Head(table).categories, cat) ELSE <<>>)
       \o TableQuestions(Tail(table), cat)

BuiltinApiUpload(cat) ==
  TableQuestions(builtInPacks, cat)
    \o (IF checkAuthentication THEN TableQuestions(securePacks, cat) ELSE <<>>)
    \o TableQuestions(customPacks, cat)

AllCategories ==
  {"test-pack", "custom", "empty", "secure"}

\* C15: a call of getMergedQuestions changes no pack table, metadata,
\* cache or preference; the list it returns for a category is the enabled
\* built-in packs' questions, then the api packs' (when authenticated),
\* then the upload packs', concatenated; and a call that directly follows
\* another returns an equal result.
C15_MergeIsPureAndOrdered ==
  [][result'.op = "getMergedQuestions" =>
       /\ UNCHANGED <<packVars, authVars, storageVars>>
       /\ \A i \in 1..Len(result'.merged) :
            result'.merged[i].questions =
              BuiltinApiUpload(result'.merged[i].categoryId)
       /\ \A cat \in AllCategories :
            BuiltinApiUpload(cat) # <<>> => HasKey(result'.merged, cat)
       /\ (result.op = "getMergedQuestions" => result'.merged = result.merged)
    ]_vars

\* The category test-pack is filed by the built-in pack, the api pack
\* pack-s and the upload pack-b, and the call returned the three in the
\* order built-in, api, upload.
C15_Witness ==
  /\ result.op = "getMergedQuestions"
  /\ HasKey(result.merged, "test-pack")
  /\ LET qs == Lookup(result.merged, "test-pack")
     IN /\ Len(qs) = 3
        /\ qs[1].packId = "builtin-public"
        /\ qs[2].packId = "pack-s"
        /\ qs[3].packId = "pack-b"

\* The questions of a cache entry, and the unexpired api entries
EntryQuestions(cached) == Flat(cached.packData.categories)
Expired(cached) == cached.expiresAt # <<>> /\ now > cached.expiresAt[1]
LiveApiEntries ==
  {i \in 1..Len(cachedPacks) :
     cachedPacks[i].source = "api" /\ ~Expired(cachedPacks[i])}

\* C16: for an api pack that is cached and not expired, (1) after the
\* logout handler the merged view contains none of its questions; (2)
\* loadCachedPacks run while unauthenticated leaves the api table and the
\* pack's cache entry as they are; (3) loadCachedPacks run while
\* authenticated puts every question of the pack in the merged view.
C16_LogoutHidesReloadRestores ==
  [][LET after == Flat(MergedOf(builtInPacks', securePacks', customPacks',
                                packMetadata', checkAuthentication'))
     IN \A i \in LiveApiEntries :
          LET cached == cachedPacks[i]
              qs == EntryQuestions(cached)
          IN /\ result'.op = "logout" =>
                  \A j \in 1..Len(qs) : Occurrences(after, qs[j]) = 0
             /\ (result'.op = "loadCachedPacks" /\ ~checkAuthentication) =>
                  /\ securePacks' = securePacks
                  /\ CacheHas(cachedPacks', cached.packId)
                  /\ CacheGet(cachedPacks', cached.packId) = cached
             /\ (result'.op = "loadCachedPacks" /\ checkAuthentication) =>
                  \A j \in 1..Len(qs) : Occurrences(after, qs[j]) = 1
    ]_vars

\* What a pack table holds for an id: one categories value, or nothing
TableEntry(table, packId) ==
  IF MapHas(table, packId) THEN <<MapGet(table, packId)>> ELSE <<>>

\* C17: an api cache entry carries expiresAt = cachedAt + 7 days and an
\* upload entry carries none.  A run of loadCachedPacks keeps every upload
\* entry; removes an api entry read later than 7 days after it was cached
\* and leaves the api table as it was for that pack; changes the api
\* table for a pack only when its entry is read within the 7 days; and,
\* when authenticated, loads an entry read within the 7 days and keeps it.
C17_ApiEntriesExpireAfterSevenDays ==
  [][/\ \A i \in 1..Len(cachedPacks') :
          LET cached == cachedPacks'[i]
          IN /\ cached.source = "api" =>
                  cached.expiresAt = <<cached.cachedAt + SevenDays>>
             /\ cached.source = "upload" => cached.expiresAt = <<>>
     /\ result'.op = "loadCachedPacks" =>
          \A i \in 1..Len(cachedPacks) :
            LET cached == cachedPacks[i]
                id == cached.packId
                passed == now > cached.cachedAt + SevenDays
            IN /\ cached.source = "upload" => CacheHas(cachedPacks', id)
               /\ (cached.source = "api" /\ passed) =>
                    /\ ~CacheHas(cachedPacks', id)
                    /\ TableEntry(securePacks', id) = TableEntry(securePacks, id)
               /\ (cached.source = "api"
                     /\ TableEntry(securePacks', id) # TableEntry(securePacks, id)) =>
                    ~passed
               /\ (cached.source = "api" /\ ~passed /\ checkAuthentication) =>
                    /\ TableEntry(securePacks', id) = <<cached.packData.categories>>
                    /\ CacheHas(cachedPacks', id)
    ]_vars

\* loadCachedPacks has just run later than 7 days after pack-s was cached:
\* the entry of pack-s is gone from the cache while the upload entry of
\* pack-b, cached no later, is still there.  (pack-s is still in the api
\* table from the load that cached it; only an expiry removes the cache
\* entry of a pack that is in the api table.)
C17_Witness ==
  /\ result.op = "loadCachedPacks"
  /\ now > SevenDays
  /\ MapHas(securePacks, "pack-s") /\ ~CacheHas(cachedPacks, "pack-s")
  /\ CacheHas(cachedPacks, "pack-b")
  /\ CacheGet(cachedPacks, "pack-b").cachedAt + SevenDays < now

\* A question with every required field, at least two options, a
\* correctIndex that is an index of its options and a known difficulty
WellFormed(q) ==
  /\ RequiredFields \cap q.absent = {}
  /\ Len(q.options) >= 2
  /\ q.correctIndex \in 0..(Len(q.options) - 1)
  /\ q.difficulty \in {"easy", "medium", "hard"}

AllWellFormed(categories) ==
  \A k \in 1..Len(categories) :
    \A j \in 1..Len(categories[k].questions) :
      WellFormed(categories[k].questions[j])

\* C18: a call of loadCustomPack either fails and leaves the upload table,
\* the metadata table and the cache as they were, or succeeds and then
\* every question of the file it stored has all required fields and valid
\* ones; so a file with a question lacking a field or holding an invalid
\* one is refused and changes nothing.
C18_InvalidUploadRejected ==
  [][result'.op = "loadCustomPack" =>
       IF result'.error = "none"
       THEN AllWellFormed(MapGet(customPacks', result'.loaded[1]))
       ELSE UNCHANGED <<customPacks, packMetadata, cachedPacks>>
    ]_vars

\* C19: every question held in the api table or the upload table has
\* 0 <= correctIndex < options.length, at least two options and a
\* difficulty of easy, medium or hard.
C19_StoredQuestionsValid ==
  \A table \in {securePacks, customPacks} :
    \A i \in 1..Len(table) :
      \A k \in 1..Len(table[i].categories) :
        \A j \in 1..Len(table[i].categories[k].questions) :
          LET q == table[i].categories[k].questions[j]
          IN /\ 0 <= q.correctIndex /\ q.correctIndex < Len(q.options)
             /\ Len(q.options) >= 2
             /\ q.difficulty \in {"easy", "medium", "hard"}

CacheEntryOf(cache, packId) ==
  IF CacheHas(cache, packId) THEN <<CacheGet(cache, packId)>> ELSE <<>>

FailedRemoteLoad ==
  /\ result'.op \in {"loadSecurePack", "loadFromGitLab"}
  /\ result'.error # "none"

Elements(s) == {s[i] : i \in 1..Len(s)}

\* The entries of the three tables, the metadata and the cache for packId
\* are after the step what they were before it
EntriesUnchanged(packId) ==
  /\ TableEntry(builtInPacks', packId) = TableEntry(builtInPacks, packId)
  /\ TableEntry(securePacks', packId) = TableEntry(securePacks, packId)
  /\ TableEntry(customPacks', packId) = TableEntry(customPacks, packId)
  /\ (packId \in DOMAIN packMetadata =>
        packId \in DOMAIN packMetadata'
          /\ packMetadata'[packId] = packMetadata[packId])
  /\ CacheEntryOf(cachedPacks', packId) = CacheEntryOf(cachedPacks, packId)

KnownIds ==
  DOMAIN packMetadata
    \cup {securePacks[i].packId : i \in 1..Len(securePacks)}
    \cup {cachedPacks[i].packId : i \in 1..Len(cachedPacks)}

\* C20 as stated: after a remote load that fails, every pack table entry,
\* metadata entry and cache entry that existed before the call is
\* unchanged.
C20_FailedLoadChangesNothing ==
  [][FailedRemoteLoad => \A packId \in KnownIds : EntriesUnchanged(packId)]_vars

\* C20: after a remote load that fails, no pack table entry, metadata
\* entry or cache entry that existed before the call is missing, and each
\* is unchanged unless an earlier file of the same loadFromGitLab call
\* was loaded under its packId; a failed loadSecurePack, and a
\* loadFromGitLab that fails on its first file, change nothing.
C20_FailedLoadKeepsEntries ==
  [][FailedRemoteLoad =>
       /\ \A packId \in KnownIds :
            /\ packId \in DOMAIN packMetadata => packId \in DOMAIN packMetadata'
            /\ MapHas(securePacks, packId) => MapHas(securePacks', packId)
            /\ CacheHas(cachedPacks, packId) => CacheHas(cachedPacks', packId)
            /\ packId \notin Elements(result'.loaded) => EntriesUnchanged(packId)
       /\ UNCHANGED <<builtInPacks, customPacks, packPreferences>>
       /\ result'.op = "loadSecurePack" => result'.loaded = <<>>
    ]_vars

\* A loadFromGitLab call has failed after loading pack-s from its first
\* file, while pack-t, loaded and switched off before the call, is still
\* in the api table, switched off and cached.
C20_Witness ==
  /\ result.op = "loadFromGitLab" /\ result.error # "none"
  /\ result.loaded = <<"pack-s">>
  /\ MapHas(securePacks, "pack-t") /\ CacheHas(cachedPacks, "pack-t")
  /\ "pack-t" \in DOMAIN packMetadata /\ ~packMetadata["pack-t"].enabled

\* The position of the first file answered with 401, or one past the end
FirstUnauthorized(requested) ==
  IF \E i \in 1..Len(requested) : requested[i].status = 401
  THEN CHOOSE i \in 1..Len(requested) :
         /\ requested[i].status = 401
         /\ \A j \in 1..(i - 1) : requested[j].status # 401
  ELSE Len(requested) + 1

\* C21: in a loadFromGitLab call for several files, whose failing files
\* are all answered with 404 or 401, every file that is answered with a
\* valid pack and stands before the first 401 is loaded and returned, also
\* when a file before it was answered with 404; and without a 401 the call
\* does not fail.
C21_NotFoundDoesNotAbort ==
  [][(/\ result'.op = "loadFromGitLab"
      /\ Len(result'.requested) >= 2
      /\ \A i \in 1..Len(result'.requested) :
           result'.requested[i].error \in {"none", "NotFound", "Unauthorized"}) =>
       LET requested == result'.requested
           stop == FirstUnauthorized(requested)
       IN /\ \A i \in 1..(stop - 1) :
               requested[i].error = "none" =>
                 requested[i].packId \in Elements(result'.loaded)
          /\ stop > Len(requested) => result'.error = "none"
    ]_vars

\* C22: loadCustomPack on a file that omits packId and is otherwise valid
\* (it has a packName and well-formed questions) succeeds and stores the
\* file's categories in the upload table under "custom-" + timestamp.
C22_GeneratedPackId ==
  [][(/\ result'.op = "loadCustomPack"
      /\ result'.requested[1].packId = Undefined
      /\ result'.requested[1].packName # Undefined
      /\ AllWellFormed(result'.requested[1].categories)) =>
       /\ result'.error = "none"
       /\ MapHas(customPacks', "custom-" \o ToString(now))
       /\ Len(Flat(MapGet(customPacks', "custom-" \o ToString(now))))
            = Len(Flat(result'.requested[1].categories))
    ]_vars

\* The questions the three tables hold under packId
PackQuestions(packId) ==
  LET of(table) == IF MapHas(table, packId)
                   THEN Flat(MapGet(table, packId)) ELSE <<>>
  IN of(builtInPacks) \o of(securePacks) \o of(customPacks)

\* C23: a call setPackEnabled(p, false) on a known pack leaves the pack
\* tables and the cache as they are and the merged view without any
\* question of p; a call setPackEnabled(p, true) that directly follows a
\* call which switched p off returns the merged view to what it was when
\* that call was made.
C23_DisableHidesEnableRestores ==
  [][result'.op = "setPackEnabled" =>
       LET call == result'.requested[1]
           after == MergedOf(builtInPacks', securePacks', customPacks',
                             packMetadata', checkAuthentication')
       IN /\ (~call.enabled /\ call.packId \in DOMAIN packMetadata) =>
               /\ UNCHANGED <<builtInPacks, securePacks, customPacks, cachedPacks>>
               /\ \A j \in 1..Len(PackQuestions(call.packId)) :
                    Occurrences(Flat(after), PackQuestions(call.packId)[j]) = 0
          /\ (/\ call.enabled
              /\ result.op = "setPackEnabled"
              /\ result.requested[1] =
                   [packId |-> call.packId, enabled |-> FALSE, wasEnabled |-> TRUE]) =>
               after = result.merged
    ]_vars

\* The upload pack-b, loaded and cached, was switched off and has just
\* been switched on again: its question is in the merged view.
C23_Witness ==
  /\ result.op = "setPackEnabled"
  /\ result.requested[1] =
       [packId |-> "pack-b", enabled |-> TRUE, wasEnabled |-> FALSE]
  /\ MapHas(customPacks, "pack-b") /\ CacheHas(cachedPacks, "pack-b")
  /\ Len(PackQuestions("pack-b")) = 1
  /\ Occurrences(MergedFor("test-pack"), PackQuestions("pack-b")[1]) = 1

\* C24: removeCustomPack(p) on a pack the metadata gives the source upload
\* removes p from the upload table, the metadata table, the cache and the
\* stored preferences and leaves every other entry as it is; on a
\* built-in pack, an api pack or an unknown id it changes nothing.
C24_RemoveOnlyUploads ==
  [][result'.op = "removeCustomPack" =>
       LET call == result'.requested[1]
           p == call.packId
       IN IF call.packSource = "upload"
          THEN /\ ~MapHas(customPacks', p)
               /\ p \notin DOMAIN packMetadata'
               /\ ~CacheHas(cachedPacks', p)
               /\ p \notin DOMAIN packPreferences'
               /\ UNCHANGED <<builtInPacks, securePacks>>
               /\ \A other \in KnownIds \ {p} :
                    /\ EntriesUnchanged(other)
                    /\ other \in DOMAIN packPreferences =>
                         other \in DOMAIN packPreferences'
                           /\ packPreferences'[other] = packPreferences[other]
          ELSE UNCHANGED <<packVars, storageVars>>
    ]_vars

\* removeCustomPack has just been called on the upload pack-b: it is in
\* no table, while the api pack pack-s is still loaded and cached.
C24_Witness ==
  /\ result.op = "removeCustomPack"
  /\ result.requested[1] = [packId |-> "pack-b", packSource |-> "upload"]
  /\ ~MapHas(customPacks, "pack-b") /\ ~CacheHas(cachedPacks, "pack-b")
  /\ MapHas(securePacks, "pack-s") /\ CacheHas(cachedPacks, "pack-s")

\* C25: a fetch that completes after its pack was disabled, or after the
\* logout that cleared the api packs, changes nothing: a flag that the
\* disabling set to false is still false, and the api table and the metadata
\* table hold no entry that was absent when the disabling or the logout
\* finished.
C25_LateFetchIsNoOp ==
  [][(/\ result'.op = "loadFromGitLab.resume"
      /\ \/ result.op = "logout"
         \/ /\ result.op = "setPackEnabled"
            /\ result.requested[1].packId \in DOMAIN packMetadata)
     => /\ \A id \in DOMAIN packMetadata :
             (~packMetadata[id].enabled /\ id \in DOMAIN packMetadata')
               => ~packMetadata'[id].enabled
        /\ \A id \in RemoteIds :
             /\ MapHas(securePacks', id) => MapHas(securePacks, id)
             /\ id \in DOMAIN packMetadata' => id \in DOMAIN packMetadata]_vars

\* C26: while localStorage.setItem throws, a start of a quiz, an advance and
\* a remote load do not fail; each leaves the session and the pack tables as
\* it does when the write goes through (the session is started or moved on
\* by one position, the loaded pack is in the api table and switched on);
\* and the cached packs, the high scores, the statistics and the snapshot
\* keep what they held before the write (for the snapshot of a started or
\* completed quiz that is nothing, the old snapshot having been cleared).
C26_FailedWriteChangesOnlyStorage ==
  [][(quotaExceeded /\ quotaExceeded')
       => /\ result'.op \in {"QuizApp.startQuiz", "QuizApp.nextQuestion",
                           "loadFromGitLab"}
               => result'.error = "none"
          /\ cachedPacks' = cachedPacks
          /\ highScores' = highScores
          /\ statistics' = statistics
          /\ packPreferences' = packPreferences
          /\ result'.op = "QuizApp.startQuiz"
               => /\ incompleteQuiz' = <<>>
                  /\ questions' # <<>> /\ currentQuestionIndex' = 0
                  /\ IdsOf(questions') = IdsOf(MergedFor("test-pack"))
                  /\ score' = 0 /\ answers' = <<>>
                  /\ UNCHANGED packVars
          /\ result'.op = "QuizApp.nextQuestion"
               => /\ incompleteQuiz' =
                       IF result'.hasMore THEN incompleteQuiz ELSE <<>>
                  /\ currentQuestionIndex' = currentQuestionIndex + 1
                  /\ UNCHANGED <<questions, score, totalPoints, correctCount,
                                 answers, category, hintsUsed, packVars>>
          /\ result'.op = "submitAnswer"
               => UNCHANGED <<packVars, storageVars>>
          /\ result'.op = "loadFromGitLab"
               => /\ result'.loaded = <<"pack-s">>
                  /\ MapHas(securePacks', "pack-s")
                  /\ MapGet(securePacks', "pack-s")
                       = ValidatedCategories(PackS)
                  /\ packMetadata'["pack-s"].enabled
                  /\ UNCHANGED <<engineVars, builtInPacks, customPacks,
                                 incompleteQuiz>>]_vars

\* A remote pack was loaded and a quiz completed while every write threw:
\* the pack is in the api table, nothing is cached and no score is stored
C26_Witness ==
  /\ quotaExceeded
  /\ result.op = "QuizApp.nextQuestion" /\ ~result.hasMore
  /\ MapHas(securePacks, "pack-s") /\ cachedPacks = <<>>
  /\ highScores = NoHighScores /\ statistics = NoStatistics
  /\ incompleteQuiz = <<>>

\* The stored snapshot is the one exportState() gives for the session st
SnapshotIs(stored, qs, index, sc, as) ==
  /\ stored # <<>>
  /\ stored[1].currentQuestionIndex = index
  /\ [i \in 1..Len(stored[1].questions) |-> stored[1].questions[i].id]
       = [i \in 1..Len(qs) |-> qs[i].id]
  /\ stored[1].score = sc
  /\ stored[1].answers = as

C28_IndexWithinSession ==
  [][result'.op = "nextQuestion"
       => /\ currentQuestionIndex' >= currentQuestionIndex
          /\ currentQuestionIndex' <= Len(questions')
          /\ isComplete => currentQuestionIndex' = currentQuestionIndex
          /\ ProgressAt(currentQuestionIndex', questions').current
               <= ProgressAt(currentQuestionIndex', questions').total]_vars

\* C29: whatever sessions are built and played, with or without the option
\* shuffle, every question object of the registry and the built-in table
\* has the options, the correctIndex and the incorrectResponses it had when
\* the registry was loaded.
C29_TablesUntouched ==
  \A a \in TableAddresses :
    /\ a \in DOMAIN heap.questions
    /\ Deref(heap, a).options = Deref(RegistryHeap, a).options
    /\ Deref(heap, a).correctIndex = Deref(RegistryHeap, a).correctIndex
    /\ Deref(heap, a).hasIncorrectResponses
         = Deref(RegistryHeap, a).hasIncorrectResponses
    /\ Deref(heap, a).incorrectResponses = Deref(RegistryHeap, a).incorrectResponses

\* An answer was given in a session whose question is a shuffled copy with
\* the options in another order than the registry's object has them
C29_Witness ==
  /\ result.op = "submitAnswer" /\ result.error = "none"
  /\ \E i \in 1..Len(heap.session) :
       /\ heap.session[i] \notin TableAddresses
       /\ Deref(heap, heap.session[i]).options
            # Deref(heap, questions[i].id).options

\* An answer was given in a session that holds the registry's own object
C29_WitnessShared ==
  /\ result.op = "submitAnswer" /\ result.error = "none"
  /\ \E i \in 1..Len(heap.session) : heap.session[i] \in TableAddresses

\* C30: a resume of a snapshot whose questions are all in the merged view
\* (as they are when the view is the one the session was built from) gives
\* the session the questions the snapshot names, with the same ids in the
\* same order, whichever pack they came from.
C30_ResumeResolvesAgainstMergedView ==
  [][(/\ result'.op = "resumeQuiz"
      /\ \A i \in 1..Len(incompleteQuiz[1].questions) :
           incompleteQuiz[1].questions[i].id \in IdsOf(Flat(getMergedQuestions)))
       => [i \in 1..Len(questions') |-> questions'[i].id]
            = [i \in 1..Len(incompleteQuiz[1].questions) |->
                 incompleteQuiz[1].questions[i].id]]_vars

\* The number of questions over all the categories of a pack, whichever
\* shape a category has
RECURSIVE TotalQuestions(_)
TotalQuestions(categories) ==
  IF categories = <<>> THEN 0
  ELSE Len(Head(categories).questions) + TotalQuestions(Tail(categories))

\* C31: the questionCount stored for a built-in pack is the number of
\* questions over all its categories, for a category that is a plain array
\* of questions as for one that is an object with a questions array.
C31_QuestionCountIsTotal ==
  \A packId \in DOMAIN packMetadata :
    (packMetadata[packId].packSource = "builtin"
       /\ MapHas(builtInPacks, packId))
      => packMetadata[packId].questionCount
           = TotalQuestions(MapGet(builtInPacks, packId))

\* The questions a pack table holds under the key packId
QuestionsStoredIn(table, packId) ==
  IF MapHas(table, packId)
  THEN LET cats == MapGet(table, packId)
       IN UNION {{cats[i].questions[j] : j \in 1..Len(cats[i].questions)} :
                   i \in 1..Len(cats)}
  ELSE {}

\* C32: every question of the merged view is stored in one of the three
\* tables under some key, and carries that key as its packId and that
\* table's name (builtin, api or upload) as its packSource.
C32_MergedQuestionsCarryProvenance ==
  LET merged == Flat(getMergedQuestions)
  IN \A i \in 1..Len(merged) :
       \E origin \in {<<"builtin", builtInPacks>>, <<"api", securePacks>>,
                      <<"upload", customPacks>>} :
         \E packId \in DOMAIN packMetadata :
           /\ merged[i] \in QuestionsStoredIn(origin[2], packId)
           /\ merged[i].packId = packId
           /\ merged[i].packSource = origin[1]

\* C33: a pack that is registered has the enabled flag last passed to
\* setPackEnabled for it (the persisted preference), also after the pack
\* was loaded from the cache, uploaded or fetched again.
C33_EnabledFollowsPreference ==
  \A packId \in DOMAIN packMetadata \cap DOMAIN packPreferences :
    packMetadata[packId].enabled = packPreferences[packId]

\* C34: the built-in pack stays registered as builtin and its questions
\* stay in the merged view, whatever is uploaded, fetched, removed or
\* logged out, also under the built-in pack's own id.
C34_BuiltInPackStays ==
  /\ "builtin-public" \in DOMAIN packMetadata
  /\ packMetadata["builtin-public"].packSource = "builtin"
  /\ QuestionsStoredIn(builtInPacks, "builtin-public")
       \subseteq {Flat(getMergedQuestions)[i] :
                    i \in 1..Len(Flat(getMergedQuestions))}

\* C35: with a storage that takes writes, the call of QuizApp.nextQuestion
\* that completes a session adds one high-score entry and raises
\* totalQuizzes by 1, and a call that arrives after the session is complete
\* adds nothing more.
C35_ResultsPersistedOnce ==
  [][(result'.op = "QuizApp.nextQuestion" /\ ~result'.hasMore /\ ~quotaExceeded)
       => IF currentQuestionIndex < Len(questions)
          THEN /\ statistics'.totalQuizzes = statistics.totalQuizzes + 1
               /\ ResultsCategory(EngineState) \in DOMAIN highScores'
          ELSE /\ statistics' = statistics
               /\ highScores' = highScores]_vars

\* C36: when the saved quiz is the session the engine holds (the same
\* question ids in the same order), resuming it gives every question that
\* is restored at its position the options in the order, and the
\* correctIndex, that the session had when it was exported.
C36_ResumeKeepsOptionOrder ==
  [][(/\ result'.op = "resumeQuiz"
      /\ [i \in 1..Len(incompleteQuiz[1].questions) |->
            incompleteQuiz[1].questions[i].id]
           = [i \in 1..Len(questions) |-> questions[i].id])
       => \A i \in 1..Len(questions') :
            questions'[i].id = questions[i].id
              => /\ questions'[i].options = questions[i].options
                 /\ questions'[i].correctIndex = questions[i].correctIndex]_vars

\* C37: when the results screen is shown at the end of a session, the
\* score, the correct count and the percentage it displays are those of
\* the session that was just completed.
C37_ResultsScreenShowsThisSession ==
  [][(result'.op = "Main.nextQuestion" /\ ~result'.hasMore)
       => /\ currentResults' # <<>>
          /\ currentResults'[1].score = score
          /\ currentResults'[1].correctCount = correctCount
          /\ currentResults'[1].percentage = getResults.percentage]_vars

\* The expiries storeToken can have written
ExpiryValues == {t + TokenLifetime : t \in ClockReadings \cup {0}}

\* C38: the pack manager's checkAuthentication and the OAuth manager's
\* isAuthenticated give the same answer in every state, and the answer is
\* yes exactly when a token and an expiry are stored and the clock is not
\* later than the expiry minus five minutes.
C38_AuthenticationChecksAgree ==
  LET valid ==
        /\ "gitlab_oauth_token" \in DOMAIN tokenStore
        /\ "gitlab_token_expiry" \in DOMAIN tokenStore
        /\ \E expiry \in ExpiryValues :
             /\ NumberToString(expiry) = tokenStore["gitlab_token_expiry"]
             /\ now <= expiry - FiveMinutes
  IN /\ checkAuthentication <=> isAuthenticated
     /\ isAuthenticated <=> valid

\* isAuthenticated() was called, and answered yes, at the last instant at
\* which the stored token still counts
C38_Witness ==
  /\ result.op = "isAuthenticated"
  /\ result.requested[1].authenticated
  /\ checkAuthentication
  /\ now = TokenLifetime - FiveMinutes

\* Contents the api table can have: nothing, one pack, another pack, and
\* two packs of which one has the built-in pack's id
ApiTables ==
  { <<>>,
    MapSet(<<>>, "pack-s", ValidatedCategories(PackS)),
    MapSet(<<>>, "pack-t", ValidatedCategories(PackT)),
    MapSet(MapSet(<<>>, "pack-s", ValidatedCategories(PackS)),
           "builtin-public", ValidatedCategories(PackRemoteShadow)) }

\* C39: while the user is not authenticated, the merged view is the same
\* for every content of the api table, all else in the resolver being equal.
C39_ApiTableHiddenWhenUnauthenticated ==
  ~checkAuthentication
    => \A secure \in ApiTables :
         MergedOf(builtInPacks, secure, customPacks, packMetadata,
                  checkAuthentication)
           = getMergedQuestions

\* getMergedQuestions was called while the api table holds an enabled pack
\* and the user is not authenticated
C39_Witness ==
  /\ result.op = "getMergedQuestions"
  /\ ~checkAuthentication
  /\ MapHas(securePacks, "pack-s")
  /\ "pack-s" \in DOMAIN packMetadata /\ packMetadata["pack-s"].enabled
  /\ result.merged = getMergedQuestions

\* C40: when the page starts over a cache, every cache entry that has not
\* expired, passes validatePackStructure and, if it is an api entry, is
\* permitted by the authentication state, is in its table afterwards,
\* whether or not another entry fails validation and wherever that entry
\* stands in the cache.
C40_ValidEntriesLoaded ==
  [][result'.op = "QuizApp.init"
       => \A i \in 1..Len(cachedPacks) :
            LET cached == cachedPacks[i]
            IN (/\ ~(cached.expiresAt # <<>> /\ now > cached.expiresAt[1])
                /\ validatePackStructure(cached.packData)
                /\ (cached.source = "api" => checkAuthentication))
                 => IF cached.source = "api"
                    THEN MapHas(securePacks', cached.packId)
                    ELSE MapHas(customPacks', cached.packId)]_vars

====
